---------------------------- MODULE Spec2Model ----------------------------
(***************************************************************************)
(* Scoring and aggregation engine of the stock bot:                        *)
(*   modules/market_analyzer.py  (indicators, determine_trend)             *)
(*   modules/sector_scanner.py   (strength score, buy signal, scan_sector) *)
(*   modules/data_fetcher.py     (get_stock_data)                          *)
(*                                                                         *)
(* Python floats are modelled as integers counted in thousandths           *)
(* (1.2 is 1200, 70.001 is 70001), with one extra value NaN that compares  *)
(* false with everything, as an IEEE NaN does.  Rounding error of the      *)
(* float arithmetic is not modelled.                                       *)
(***************************************************************************)
EXTENDS Integers, Sequences, FiniteSets, TLC

VARIABLES
    \* analyze_stock's scoring steps (sector_scanner.py 100-116)
    args, pc, trend, trend_score, strength_score, buy_signal,
    \* scan_sector (sector_scanner.py 250-322) and the fetcher it shares
    symbols, market, futures, cache, stock_analyses, scan_pc, sector,
    \* calculate_rsi on a close series (market_analyzer.py 65-73)
    close, rsi_pc, rsi_value,
    \* analyze_index on a 90-bar close series (market_analyzer.py 244-270)
    series, index_pc, histogram, index_analysis,
    \* generate_market_outlook (predictor.py 455-546)
    outlook_index, outlook_sectors, outlook_pc, outlook,
    \* discover_tw_movers and _analyze_candidates (stock_discovery.py 64-160)
    watchlist, disc_top_n, candidates, disc_i, disc_pc, in_flight, started,
    delays, disc_results, disc_relaxed, discovered, disc_market,
    \* scan_all_sectors (sector_scanner.py 324-349)
    sectors_config, sector_ix, sector_results, all_pc,
    \* get_top_stocks (sector_scanner.py 351-380)
    top_sectors, top_n_arg, top_pc, top_result,
    \* run_analysis and send_daily_report (main.py 116-207)
    bot_market, tw_raises, us_raises, enable_discovery, disc_outcome,
    bot_pc, tw_result, us_result, discoveries, sent,
    \* predict_stock's steps (predictor.py 252-271)
    pred_args, pred_pc, pattern_analysis, prediction, price_range,
    \* analyze_stock, analyze_index and predict_stock on one fetched frame
    absent_data, absent_called, absent_stock, absent_index, absent_prediction,
    \* a DataFetcher with its clock (data_fetcher.py 19-66, 155-159)
    fc_now, fc_cache, fc_expiry, fc_fetched, fc_last

score_vars == <<args, pc, trend, trend_score, strength_score, buy_signal>>

scan_vars == <<symbols, market, futures, cache, stock_analyses, scan_pc, sector>>

rsi_vars == <<close, rsi_pc, rsi_value>>

index_vars == <<series, index_pc, histogram, index_analysis>>

outlook_vars == <<outlook_index, outlook_sectors, outlook_pc, outlook>>

\* the state of the operations other than scoring, scan_sector and
\* calculate_rsi
disc_vars ==
    <<watchlist, disc_top_n, candidates, disc_i, disc_pc, in_flight, started,
      delays, disc_results, disc_relaxed, discovered, disc_market>>

all_vars == <<sectors_config, sector_ix, sector_results, all_pc>>

top_vars == <<top_sectors, top_n_arg, top_pc, top_result>>

bot_vars ==
    <<bot_market, tw_raises, us_raises, enable_discovery, disc_outcome,
      bot_pc, tw_result, us_result, discoveries, sent>>

pred_vars == <<pred_args, pred_pc, pattern_analysis, prediction, price_range>>

absent_vars ==
    <<absent_data, absent_called, absent_stock, absent_index, absent_prediction>>

fetch_vars == <<fc_now, fc_cache, fc_expiry, fc_fetched, fc_last>>

later_vars == <<pred_vars, absent_vars, fetch_vars>>

ext_vars ==
    <<index_vars, outlook_vars, disc_vars, all_vars, top_vars, bot_vars, later_vars>>

vars == <<score_vars, scan_vars, rsi_vars, ext_vars>>

core_vars == <<score_vars, scan_vars, rsi_vars>>

\* everything but one group
not_index_vars ==
    <<core_vars, outlook_vars, disc_vars, all_vars, top_vars, bot_vars, later_vars>>
not_outlook_vars ==
    <<core_vars, index_vars, disc_vars, all_vars, top_vars, bot_vars, later_vars>>
\* scan_all_sectors drives scan_sector
not_all_vars ==
    <<score_vars, rsi_vars, index_vars, outlook_vars, disc_vars, top_vars,
      bot_vars, later_vars, market, cache>>
\* discovery shares the fetcher (market, cache) with scan_sector
not_disc_vars ==
    <<score_vars, rsi_vars, index_vars, outlook_vars, all_vars, top_vars, bot_vars,
      later_vars,
      symbols, futures, stock_analyses, scan_pc, sector>>

\* the float NaN among the fractions of calculate_rsi
FNaN == [kind |-> "nan", num |-> 0, den |-> 1]

\* calculate_rsi has not been called
RsiIdle ==
    /\ close = <<>>
    /\ rsi_pc = "idle"
    /\ rsi_value = FNaN

\* analyze_index has not been called
IndexIdle ==
    /\ series = <<>>
    /\ index_pc = "idle"
    /\ histogram = 0
    /\ index_analysis = [kind |-> "none", trend |-> "NEUTRAL", trend_score |-> 0, rsi |-> 0]

\* generate_market_outlook has not been called
OutlookIdle ==
    /\ outlook_index = [kind |-> "none", trend |-> "NEUTRAL", trend_score |-> 0, rsi |-> 0]
    /\ outlook_sectors = <<>>
    /\ outlook_pc = "idle"
    /\ outlook = [bullish_factors |-> <<>>, bearish_factors |-> <<>>,
                  direction |-> "NEUTRAL", confidence |-> "LOW"]

\* discover_tw_movers has not been called
DiscIdle ==
    /\ watchlist = {}
    /\ disc_top_n = 0
    /\ candidates = <<>>
    /\ disc_i = 0
    /\ disc_pc = "idle"
    /\ in_flight = 0
    /\ started = <<>>
    /\ delays = 0
    /\ disc_results = <<>>
    /\ disc_relaxed = FALSE
    /\ discovered = <<>>
    /\ disc_market = "TW"

\* scan_all_sectors has not been called
AllIdle ==
    /\ sectors_config = <<>>
    /\ sector_ix = 0
    /\ sector_results = <<>>
    /\ all_pc = "idle"

\* no prediction value: predict_stock has computed nothing
NoPrediction == [score |-> 0, direction |-> "NEUTRAL", confidence |-> "LOW"]

\* predict_stock has not been called
PredIdle ==
    /\ pred_args = <<>>
    /\ pred_pc = "idle"
    /\ pattern_analysis = <<>>
    /\ prediction = NoPrediction
    /\ price_range = [high |-> 0, low |-> 0]

\* no frame has been handed to the three analyses
AbsentIdle ==
    /\ absent_data = <<>>
    /\ absent_called = {}
    /\ absent_stock = "unset"
    /\ absent_index = "unset"
    /\ absent_prediction = "unset"

\* the timed DataFetcher is not in use
FetchIdle ==
    /\ fc_now = 0
    /\ fc_cache = <<>>
    /\ fc_expiry = <<>>
    /\ fc_fetched = <<>>
    /\ fc_last = <<>>

LaterIdle ==
    /\ PredIdle
    /\ AbsentIdle
    /\ FetchIdle

\* get_top_stocks has not been called
TopIdle ==
    /\ top_sectors = <<>>
    /\ top_n_arg = 0
    /\ top_pc = "idle"
    /\ top_result = <<>>

\* the bot has not been asked for a report
BotIdle ==
    /\ bot_market = "all"
    /\ tw_raises = FALSE
    /\ us_raises = FALSE
    /\ enable_discovery = FALSE
    /\ disc_outcome = "empty"
    /\ bot_pc = "idle"
    /\ tw_result = "unset"
    /\ us_result = "unset"
    /\ discoveries = "unset"
    /\ sent = <<>>

ExtIdle ==
    /\ IndexIdle
    /\ OutlookIdle
    /\ DiscIdle
    /\ AllIdle
    /\ TopIdle
    /\ BotIdle
    /\ LaterIdle

\* no scoring step has run
ScoreStart ==
    /\ pc = "trend"
    /\ trend = "NEUTRAL"
    /\ trend_score = 0
    /\ strength_score = 0
    /\ buy_signal = FALSE

---------------------------------------------------------------------------
(* Floats *)

\* thousandths per unit
Unit == 10 * 10 * 10

\* the float NaN: a value outside every range the model uses
NaN == 0 - 999999999

IsNaN(x) == x = NaN

\* Python's comparisons: any comparison with NaN is False
Gt(a, b) == ~IsNaN(a) /\ ~IsNaN(b) /\ a > b
Lt(a, b) == ~IsNaN(a) /\ ~IsNaN(b) /\ a < b
Le(a, b) == ~IsNaN(a) /\ ~IsNaN(b) /\ a <= b

\* Python's max(a, b) and min(a, b): the first argument is kept unless the
\* second compares strictly greater (smaller), so max(-20, nan) is -20
PyMax(a, b) == IF Gt(b, a) THEN b ELSE a
PyMin(a, b) == IF Lt(b, a) THEN b ELSE a

\* x * k for a float x and an integer literal k
Times(x, k) == IF IsNaN(x) THEN NaN ELSE x * k

\* Python's int(x) of a finite float x given in thousandths: truncation
\* toward zero (int(-1.25) is -1).  int(nan) raises ValueError, see TrendRaises.
PyInt(x) == IF x >= 0 THEN x \div Unit ELSE -((-x) \div Unit)

---------------------------------------------------------------------------
(* MarketAnalyzer.determine_trend *)

\* lines 137-144 with the signs of the two full arrangements exchanged
MaTermSignsExchanged(current_price, sma_5, sma_20, sma_60) ==
    IF Gt(current_price, sma_5) /\ Gt(sma_5, sma_20) /\ Gt(sma_20, sma_60) THEN -30
    ELSE IF Lt(current_price, sma_5) /\ Lt(sma_5, sma_20) /\ Lt(sma_20, sma_60) THEN 30
    ELSE IF Gt(current_price, sma_20) THEN 15
    ELSE IF Lt(current_price, sma_20) THEN -15
    ELSE 0

\* moving-average ordering, lines 137-144
MaTerm(current_price, sma_5, sma_20, sma_60) ==
    IF Gt(current_price, sma_5) /\ Gt(sma_5, sma_20) /\ Gt(sma_20, sma_60) THEN 30
    ELSE IF Lt(current_price, sma_5) /\ Lt(sma_5, sma_20) /\ Lt(sma_20, sma_60) THEN -30
    ELSE IF Gt(current_price, sma_20) THEN 15
    ELSE IF Lt(current_price, sma_20) THEN -15
    ELSE 0

\* RSI, lines 147-154 (rsi in thousandths)
RsiTerm(rsi) ==
    IF Gt(rsi, 70 * Unit) THEN 15
    ELSE IF Gt(rsi, 50 * Unit) THEN 10
    ELSE IF Lt(rsi, 30 * Unit) THEN -15
    ELSE IF Lt(rsi, 50 * Unit) THEN -10
    ELSE 0

\* MACD, lines 157-160: int(macd_histogram * 100) capped at +-25
MacdTerm(macd_histogram) ==
    IF Gt(macd_histogram, 0)
    THEN PyMin(25, PyInt(Times(macd_histogram, 100)))
    ELSE PyMax(-25, PyInt(Times(macd_histogram, 100)))

\* price change, line 163: int(price_change_pct * 5) capped at +-20
ChangeTerm(price_change_pct) ==
    PyMin(20, PyMax(-20, PyInt(Times(price_change_pct, 5))))

\* int() of a NaN raises ValueError at line 158/160 or 163
TrendRaises(macd_histogram, price_change_pct) ==
    IsNaN(macd_histogram) \/ IsNaN(price_change_pct)

\* line 166
ClampTrendScore(score) == PyMax(-100, PyMin(100, score))

\* the score before the label is chosen, lines 134-166
TrendScore(a) ==
    ClampTrendScore(MaTerm(a.current_price, a.sma_5, a.sma_20, a.sma_60)
                    + RsiTerm(a.rsi)
                    + MacdTerm(a.macd_histogram)
                    + ChangeTerm(a.price_change_pct))

\* TrendLabel with strict comparisons at the two strong thresholds
TrendLabelStrict(score) ==
    IF score > 50 THEN "STRONG_BULLISH"
    ELSE IF score >= 20 THEN "BULLISH"
    ELSE IF score < -50 THEN "STRONG_BEARISH"
    ELSE IF score <= -20 THEN "BEARISH"
    ELSE "NEUTRAL"

\* the label, lines 169-178
TrendLabel(score) ==
    IF score >= 50 THEN "STRONG_BULLISH"
    ELSE IF score >= 20 THEN "BULLISH"
    ELSE IF score <= -50 THEN "STRONG_BEARISH"
    ELSE IF score <= -20 THEN "BEARISH"
    ELSE "NEUTRAL"

\* lines 118-180: the (trend, score) pair returned, or the ValueError of int()
determine_trend(a) ==
    IF TrendRaises(a.macd_histogram, a.price_change_pct)
    THEN [raised |-> TRUE, trend |-> "NEUTRAL", score |-> 0]
    ELSE [raised |-> FALSE, trend |-> TrendLabel(TrendScore(a)), score |-> TrendScore(a)]

---------------------------------------------------------------------------
(* SectorScanner._calculate_strength_score, in thousandths of a point *)

\* price change contribution, line 159
StrengthChangeTerm(price_change_pct) ==
    PyMin(20 * Unit, PyMax(-20 * Unit, Times(price_change_pct, 4)))

\* volume contribution, lines 162-163
StrengthVolumeTerm(volume_ratio) ==
    IF Gt(volume_ratio, 1 * Unit)
    THEN PyMin(15 * Unit, (volume_ratio - 1 * Unit) * 10)
    ELSE 0

\* RSI contribution, lines 166-171
StrengthRsiTerm(rsi) ==
    IF Le(40 * Unit, rsi) /\ Le(rsi, 70 * Unit) THEN 10 * Unit
    ELSE IF Gt(rsi, 70 * Unit) THEN 5 * Unit
    ELSE -5 * Unit

\* trend contribution, line 174: trend_score * 0.15
StrengthTrendTerm(score) == score * 150

\* price position, lines 177-180
StrengthPositionTerm(current_price, sma_20) ==
    IF Gt(current_price, sma_20) THEN 10 * Unit ELSE -5 * Unit

\* ClampStrength without the clamp: the raw sum is returned
ClampStrengthMissing(score) == score

\* line 182
ClampStrength(score) == PyMax(0, PyMin(100 * Unit, score))

\* lines 146-182
_calculate_strength_score(price_change_pct, volume_ratio, rsi, score, current_price, sma_20) ==
    ClampStrength(50 * Unit
                  + StrengthChangeTerm(price_change_pct)
                  + StrengthVolumeTerm(volume_ratio)
                  + StrengthRsiTerm(rsi)
                  + StrengthTrendTerm(score)
                  + StrengthPositionTerm(current_price, sma_20))

---------------------------------------------------------------------------
(* SectorScanner._check_buy_signal *)

\* the five tests, lines 198-215
BuySignals(current_price, sma_5, sma_20, rsi, macd_histogram, volume_ratio, price_change_pct) ==
    (IF Gt(current_price, sma_5) /\ Gt(sma_5, sma_20) THEN 1 ELSE 0)
    + (IF Le(40 * Unit, rsi) /\ Le(rsi, 70 * Unit) THEN 1 ELSE 0)
    + (IF Gt(macd_histogram, 0) THEN 1 ELSE 0)
    + (IF Gt(volume_ratio, 1200) THEN 1 ELSE 0)
    + (IF Le(1 * Unit, price_change_pct) /\ Le(price_change_pct, 7 * Unit) THEN 1 ELSE 0)

\* _check_buy_signal asking for more than 3 signals
CheckBuySignalMoreThan3(current_price, sma_5, sma_20, rsi, macd_histogram, volume_ratio, price_change_pct) ==
    BuySignals(current_price, sma_5, sma_20, rsi, macd_histogram,
               volume_ratio, price_change_pct) > 3

\* lines 184-217
_check_buy_signal(current_price, sma_5, sma_20, rsi, macd_histogram, volume_ratio, price_change_pct) ==
    BuySignals(current_price, sma_5, sma_20, rsi, macd_histogram,
               volume_ratio, price_change_pct) >= 3

---------------------------------------------------------------------------
(* DataFetcher.get_stock_data and SectorScanner.analyze_stock *)

\* analyze_stock gives up below this many bars, sector_scanner.py 74
MinBars == 20

\* get_stock_data returned None
NoData == [bars |-> 0, present |-> FALSE, snap |-> <<>>]

\* a non-empty frame: its number of bars and the indicator values that
\* lines 78-98 of analyze_stock compute from it
Frame(bars, snap) == [bars |-> bars, present |-> TRUE, snap |-> snap]

\* data_fetcher.py 41-66 for one cache key (period and interval are the
\* defaults in every call of analyze_stock).  fresh says whether
\* datetime.now() is still before the entry's expiry; resp is what the
\* provider does when it is asked.  Gives the value returned and the cache.
get_stock_data(cached, symbol, fresh, resp) ==
    IF symbol \in DOMAIN cached /\ fresh
    THEN [data |-> cached[symbol], cache |-> cached]
    ELSE IF resp.fetch = "raises" THEN [data |-> NoData, cache |-> cached]
    ELSE IF resp.fetch = "empty" THEN [data |-> NoData, cache |-> cached]
    ELSE [data |-> resp.frame, cache |-> (symbol :> resp.frame) @@ cached]

\* analyze_stock returned None
NoAnalysis == [kind |-> "none"]

\* an exception left analyze_stock
RaisedAnalysis == [kind |-> "raise"]

\* sector_scanner.py 142-144 with the exception passed on to the caller
OnErrorReraise == RaisedAnalysis

\* sector_scanner.py 142-144: every Exception of the computation is logged
\* and None is returned
OnError == NoAnalysis

\* sector_scanner.py 128-140; the fields no aggregation and no filter reads
\* (name, sector, current_price, rsi, analysis_note) are left out
StockAnalysis(symbol, snap, t) ==
    [kind |-> "ok",
     symbol |-> symbol,
     price_change_pct |-> snap.price_change_pct,
     volume_ratio |-> snap.volume_ratio,
     trend_score |-> t.score,
     strength_score |-> _calculate_strength_score(
         snap.price_change_pct, snap.volume_ratio, snap.rsi,
         t.score, snap.current_price, snap.sma_20),
     buy_signal |-> _check_buy_signal(
         snap.current_price, snap.sma_5, snap.sma_20, snap.rsi,
         snap.macd_histogram, snap.volume_ratio, snap.price_change_pct)]

\* sector_scanner.py 72-144, given what get_stock_data returned
\* analyze_stock without the test of the number of bars (line 74)
AnalyzeStockAnyLength(symbol, data) ==
    IF ~data.present THEN NoAnalysis
    ELSE LET t == determine_trend(data.snap) IN
         IF t.raised THEN OnError
         ELSE StockAnalysis(symbol, data.snap, t)

analyze_stock(symbol, data) ==
    IF ~data.present \/ data.bars < MinBars THEN NoAnalysis
    ELSE LET t == determine_trend(data.snap) IN
         IF t.raised THEN OnError
         ELSE StockAnalysis(symbol, data.snap, t)

---------------------------------------------------------------------------
(* SectorScanner.scan_sector *)

\* ThreadPoolExecutor(max_workers=5), sector_scanner.py 270
MaxWorkers == 5

\* the slice [:5], sector_scanner.py 312
TopN == 5

RECURSIVE SumOf(_, _)
\* sum of field f over a sequence of records
SumOf(s, f) == IF s = <<>> THEN 0 ELSE s[1][f] + SumOf(Tail(s), f)

\* np.mean of a list: the sum over the length; 0/0 (the mean of an empty list)
\* is NaN
Mean(s, f) == [num |-> SumOf(s, f), den |-> Len(s)]

\* a float literal as a fraction
Exact(x) == [num |-> x, den |-> 1]

\* comparisons of a mean with a literal (thousandths); False for NaN
MeanGe(m, k) == m.den > 0 /\ m.num >= k * m.den
MeanLe(m, k) == m.den > 0 /\ m.num <= k * m.den

\* sector_scanner.py 291
AvgChange(analyses) == Mean(analyses, "price_change_pct")

\* line 292 averaging the wrong field
AvgStrengthOfChange(analyses) == Mean(analyses, "price_change_pct")

\* sector_scanner.py 292
AvgStrength(analyses) == Mean(analyses, "strength_score")

\* sector_scanner.py 293
BullishCount(analyses) ==
    Cardinality({i \in 1..Len(analyses) : analyses[i].trend_score > 0})

\* sector_scanner.py 296-305
SectorTrend(avg_strength) ==
    IF MeanGe(avg_strength, 70 * Unit) THEN "STRONG_BULLISH"
    ELSE IF MeanGe(avg_strength, 55 * Unit) THEN "BULLISH"
    ELSE IF MeanLe(avg_strength, 30 * Unit) THEN "STRONG_BEARISH"
    ELSE IF MeanLe(avg_strength, 45 * Unit) THEN "BEARISH"
    ELSE "NEUTRAL"

\* x put into a list sorted by strength_score descending, behind every entry
\* that is not weaker: equal entries keep the order they arrived in
InsertDesc(sorted, x) ==
    LET ahead == {i \in 1..Len(sorted) : sorted[i].strength_score >= x.strength_score}
        k == IF ahead = {} THEN 0 ELSE CHOOSE i \in ahead : \A j \in ahead : j <= i
    IN SubSeq(sorted, 1, k) \o <<x>> \o SubSeq(sorted, k + 1, Len(sorted))

RECURSIVE SortedByStrength(_)
\* sorted(..., key=strength_score, reverse=True): Python's sort is stable
\* also with reverse=True; sector_scanner.py 308-312
SortedByStrength(s) ==
    IF s = <<>> THEN <<>>
    ELSE InsertDesc(SortedByStrength(SubSeq(s, 1, Len(s) - 1)), s[Len(s)])

\* the slice s[:n]
Take(s, n) == SubSeq(s, 1, IF Len(s) < n THEN Len(s) ELSE n)

\* sector_scanner.py 308-312
TopStocks(analyses) == Take(SortedByStrength(analyses), TopN)

\* sector_scanner.py 282-288; the dataclass defaults fill top_stocks and
\* bullish_count (lines 43-45)
EmptySector ==
    [avg_change_pct |-> Exact(0),
     strength_score |-> Exact(0),
     trend |-> "NEUTRAL",
     top_stocks |-> <<>>,
     stock_count |-> 0,
     bullish_count |-> 0]

\* line 281 never taking the early return
NeverEmpty(analyses) == FALSE

\* sector_scanner.py 281: "if not stock_analyses"
IsEmpty(analyses) == analyses = <<>>

\* sector_scanner.py 281-322: the reduction of the collected analyses
SectorOf(analyses) ==
    IF IsEmpty(analyses) THEN EmptySector
    ELSE [avg_change_pct |-> AvgChange(analyses),
          strength_score |-> AvgStrength(analyses),
          trend |-> SectorTrend(AvgStrength(analyses)),
          top_stocks |-> TopStocks(analyses),
          stock_count |-> Len(analyses),
          bullish_count |-> BullishCount(analyses)]

\* lines 278-279 with a failed analysis kept as an all-zero entry
CollectedZeroFilled(analyses, result) ==
    IF result.kind = "ok" THEN Append(analyses, result)
    ELSE Append(analyses, [kind |-> "ok", symbol |-> "", price_change_pct |-> 0,
                           volume_ratio |-> 0,
                           trend_score |-> 0, strength_score |-> 0,
                           buy_signal |-> FALSE])

\* sector_scanner.py 278-279: "if result: stock_analyses.append(result)"
Collected(analyses, result) ==
    IF result.kind = "ok" THEN Append(analyses, result) ELSE analyses

\* longest symbol list of a sector
MaxSymbols == 3

SymbolOrder == <<"AAA", "BBB", "CCC">>

SymbolSet == {SymbolOrder[k] : k \in DOMAIN SymbolOrder}

Rank(symbol) == CHOOSE k \in DOMAIN SymbolOrder : SymbolOrder[k] = symbol

\* scan_sector never looks into a symbol's name, so lists are taken up to
\* renaming: the first symbol named is AAA, the next new one BBB, then CCC.
\* A symbol may be named more than once.
Canonical(s) ==
    \A i \in DOMAIN s :
        \/ Rank(s[i]) = 1
        \/ \E j \in 1..(i - 1) : Rank(s[j]) >= Rank(s[i]) - 1

SymbolLists ==
    {s \in UNION {[1..n -> SymbolSet] : n \in 0..MaxSymbols} : Canonical(s)}

Listed(s) == {s[i] : i \in DOMAIN s}

\* two frames with usable indicators, a frame that is too short, and a frame
\* whose MACD histogram is NaN (int() raises on it at market_analyzer.py 160)
StrongSnap ==
    [current_price |-> 4000, sma_5 |-> 3000, sma_20 |-> 2000, sma_60 |-> 1000,
     rsi |-> 70000, macd_histogram |-> 255, price_change_pct |-> 1000,
     volume_ratio |-> 1200]
WeakSnap ==
    [current_price |-> 1000, sma_5 |-> 2000, sma_20 |-> 3000, sma_60 |-> 4000,
     rsi |-> 20000, macd_histogram |-> -300, price_change_pct |-> -250,
     volume_ratio |-> 1000]
NaNSnap == [StrongSnap EXCEPT !.macd_histogram = NaN]

\* what the provider has for a symbol: a strong series, a weak series, or
\* nothing usable
MarketStates == {"strong", "weak", "down"}

\* what ticker.history can do for a symbol in that state
Responses(state) ==
    IF state = "strong" THEN {[fetch |-> "ok", frame |-> Frame(60, StrongSnap)]}
    ELSE IF state = "weak" THEN {[fetch |-> "ok", frame |-> Frame(60, WeakSnap)]}
    ELSE {[fetch |-> "raises", frame |-> NoData],
          [fetch |-> "empty", frame |-> NoData],
          [fetch |-> "ok", frame |-> Frame(MinBars - 1, StrongSnap)],
          [fetch |-> "ok", frame |-> Frame(60, NaNSnap)]}

ScanIdle ==
    /\ symbols = <<>>
    /\ market = <<>>
    /\ futures = <<>>
    /\ cache = <<>>
    /\ stock_analyses = <<>>
    /\ scan_pc = "idle"
    /\ sector = EmptySector

ScanInit ==
    /\ symbols \in SymbolLists
    /\ market \in [Listed(symbols) -> MarketStates]
    /\ futures = <<>>
    /\ cache = <<>>
    /\ stock_analyses = <<>>
    /\ scan_pc = "submit"
    /\ sector = EmptySector
    /\ args = StrongSnap
    /\ ScoreStart
    /\ RsiIdle
    /\ ExtIdle

Running == {i \in DOMAIN futures : futures[i].state = "running"}

\* sector_scanner.py 267-274: one future per entry of symbols
Submit ==
    /\ scan_pc = "submit"
    /\ futures' = [i \in 1..Len(symbols) |-> [state |-> "queued", result |-> NoAnalysis]]
    /\ scan_pc' = "collect"
    /\ UNCHANGED <<symbols, market, cache, stock_analyses, sector, score_vars, rsi_vars, ext_vars>>

\* the pool starting a thread for every work item
StartWorkerUnbounded(i) ==
    /\ scan_pc = "collect"
    /\ futures[i].state = "queued"
    /\ \A j \in 1..(i - 1) : futures[j].state # "queued"
    /\ futures' = [futures EXCEPT ![i].state = "running"]
    /\ UNCHANGED <<symbols, market, cache, stock_analyses, scan_pc, sector, score_vars, rsi_vars, ext_vars>>

\* a pool thread takes the oldest queued work item; the pool has MaxWorkers
\* threads
StartWorker(i) ==
    /\ scan_pc = "collect"
    /\ futures[i].state = "queued"
    /\ \A j \in 1..(i - 1) : futures[j].state # "queued"
    /\ Cardinality(Running) < MaxWorkers
    /\ futures' = [futures EXCEPT ![i].state = "running"]
    /\ UNCHANGED <<symbols, market, cache, stock_analyses, scan_pc, sector, score_vars, rsi_vars, ext_vars>>

\* the thread runs analyze_stock(symbol, sector_name, period) to its end
FinishWorker(i) ==
    /\ scan_pc = "collect"
    /\ futures[i].state = "running"
    /\ \E fresh \in BOOLEAN, resp \in Responses(market[symbols[i]]) :
         LET got == get_stock_data(cache, symbols[i], fresh, resp) IN
           /\ futures' = [futures EXCEPT
                  ![i] = [state |-> "finished",
                          result |-> analyze_stock(symbols[i], got.data)]]
           /\ cache' = got.cache
    /\ UNCHANGED <<symbols, market, stock_analyses, scan_pc, sector, score_vars, rsi_vars, ext_vars>>

\* sector_scanner.py 276-279: as_completed yields a finished future;
\* future.result() returns the analysis or raises what the call raised
Collect(i) ==
    /\ scan_pc = "collect"
    /\ futures[i].state = "finished"
    /\ IF futures[i].result.kind = "raise"
       THEN /\ scan_pc' = "raised"
            /\ UNCHANGED <<futures, stock_analyses>>
       ELSE /\ stock_analyses' = Collected(stock_analyses, futures[i].result)
            /\ futures' = [futures EXCEPT ![i].state = "collected"]
            /\ UNCHANGED scan_pc
    /\ UNCHANGED <<symbols, market, cache, sector, score_vars, rsi_vars, ext_vars>>

\* the reduction run as soon as one result has been collected
ReduceEarly ==
    /\ scan_pc = "collect"
    /\ \E i \in DOMAIN futures : futures[i].state = "collected"
    /\ sector' = SectorOf(stock_analyses)
    /\ scan_pc' = "done"
    /\ UNCHANGED <<symbols, market, futures, cache, stock_analyses, score_vars, rsi_vars, ext_vars>>

\* sector_scanner.py 281-322, once as_completed is exhausted
Reduce ==
    /\ scan_pc = "collect"
    /\ \A i \in DOMAIN futures : futures[i].state = "collected"
    /\ sector' = SectorOf(stock_analyses)
    /\ scan_pc' = "done"
    /\ UNCHANGED <<symbols, market, futures, cache, stock_analyses, score_vars, rsi_vars, ext_vars>>

ScanNext ==
    \/ Submit
    \/ \E i \in DOMAIN futures : StartWorker(i)
    \/ \E i \in DOMAIN futures : FinishWorker(i)
    \/ \E i \in DOMAIN futures : Collect(i)
    \/ Reduce

SpecScan == ScanInit /\ [][ScanNext]_vars

---------------------------------------------------------------------------
(* Claims about scan_sector, checked under SpecScan *)

\* the entries of symbols whose analyze_stock call returned a StockAnalysis
Scored == {i \in DOMAIN futures : futures[i].result.kind = "ok"}

RECURSIVE SumScored(_, _)
\* sum of field f of the analyses returned for the entries in S
SumScored(S, f) ==
    IF S = {} THEN 0
    ELSE LET i == CHOOSE k \in S : TRUE
         IN futures[i].result[f] + SumScored(S \ {i}, f)

\* the fraction m is the mean of field f over the scored entries
IsMeanOfScored(m, f) ==
    /\ m.den > 0
    /\ m.num * Cardinality(Scored) = m.den * SumScored(Scored, f)

\* C4: with at least one instrument scored, the sector's strength_score is the
\* arithmetic mean of the strength_score of exactly the scored instruments,
\* and avg_change_pct the mean of their price_change_pct.
C4_SectorMeans ==
    (scan_pc = "done" /\ Scored # {}) =>
        /\ IsMeanOfScored(sector.strength_score, "strength_score")
        /\ IsMeanOfScored(sector.avg_change_pct, "price_change_pct")

\* three instruments scored, not all with the same strength
C4_Witness ==
    /\ scan_pc = "done"
    /\ Cardinality(Scored) = 3
    /\ \E i, j \in Scored :
         futures[i].result.strength_score # futures[j].result.strength_score

\* C5: stock_count is the number of submitted symbols whose analysis returned
\* a StockAnalysis; a symbol whose analysis returned nothing is in no count
\* and no list of the result (it is not kept as a zero entry).
C5_StockCount ==
    scan_pc = "done" =>
        /\ sector.stock_count = Cardinality(Scored)
        /\ sector.bullish_count =
               Cardinality({i \in Scored : futures[i].result.trend_score > 0})
        /\ \A k \in DOMAIN sector.top_stocks :
               \E i \in Scored : sector.top_stocks[k] = futures[i].result
        /\ Len(sector.top_stocks) <= Cardinality(Scored)

\* three symbols submitted, one of them scored
C5_Witness ==
    /\ scan_pc = "done"
    /\ Len(symbols) = 3
    /\ Cardinality(Scored) = 1
    /\ sector.stock_count = 1

\* C6 (as claimed): top_stocks is sorted by strength_score descending, has at
\* most 5 entries, and no two of its entries have the same symbol, also when
\* the symbol list names a symbol twice.
C6_TopStocksSortedUnique ==
    scan_pc = "done" =>
        /\ \A i, j \in DOMAIN sector.top_stocks :
               i < j => sector.top_stocks[i].strength_score
                            >= sector.top_stocks[j].strength_score
        /\ Len(sector.top_stocks) <= TopN
        /\ \A i, j \in DOMAIN sector.top_stocks :
               i # j => sector.top_stocks[i].symbol # sector.top_stocks[j].symbol

\* place of a symbol in a list that names it once
Place(symbol) == CHOOSE i \in DOMAIN symbols : symbols[i] = symbol

NoSymbolTwice == \A i, j \in DOMAIN symbols : i # j => symbols[i] # symbols[j]

\* C7 (as claimed): of two scored instruments with equal strength_score the
\* one earlier in the symbol list comes first in top_stocks, whatever the
\* order in which the workers complete.
C7_TiesInInputOrder ==
    (scan_pc = "done" /\ NoSymbolTwice) =>
        \A i, j \in DOMAIN sector.top_stocks :
            (i < j /\ sector.top_stocks[i].strength_score
                          = sector.top_stocks[j].strength_score)
                => Place(sector.top_stocks[i].symbol)
                       < Place(sector.top_stocks[j].symbol)

\* C8: when no instrument yields a StockAnalysis, scan_sector does not raise
\* and returns strength_score 0, avg_change_pct 0, NEUTRAL, stock_count 0,
\* bullish_count 0 and no top_stocks.
C8_EmptySentinel ==
    /\ Scored = {} => scan_pc # "raised"
    /\ (scan_pc = "done" /\ Scored = {}) =>
          /\ sector.strength_score = [num |-> 0, den |-> 1]
          /\ sector.avg_change_pct = [num |-> 0, den |-> 1]
          /\ sector.trend = "NEUTRAL"
          /\ sector.stock_count = 0
          /\ sector.bullish_count = 0
          /\ sector.top_stocks = <<>>

\* every one of several symbols failed
C8_Witness ==
    /\ scan_pc = "done"
    /\ Len(symbols) >= 2
    /\ Scored = {}

\* the symbols of the entries in S, counted with multiplicity
Times_(S, symbol) == Cardinality({i \in S : symbols[i] = symbol})

\* C9: a failed analysis (no data, too few bars, an error of the fetch or of
\* the computation) does not make scan_sector raise; the result is computed
\* from the analyses of the remaining symbols and the failed one is left out.
C9_FailureIsolated ==
    /\ scan_pc # "raised"
    /\ scan_pc = "done" =>
          /\ \A sym \in SymbolSet :
                 Cardinality({k \in DOMAIN stock_analyses :
                                  stock_analyses[k].symbol = sym})
                     = Times_(Scored, sym)
          /\ sector.stock_count = Cardinality(Scored)
          /\ \A k \in DOMAIN sector.top_stocks :
                 \E i \in Scored : symbols[i] = sector.top_stocks[k].symbol

\* the first symbol's frame made the computation raise, another symbol was
\* scored, and the scan has returned
C9_Witness ==
    /\ scan_pc = "done"
    /\ Len(symbols) >= 2
    /\ symbols[1] \in DOMAIN cache
    /\ cache[symbols[1]].snap = NaNSnap
    /\ futures[1].result.kind = "none"
    /\ Scored # {}

---------------------------------------------------------------------------
(* The scoring steps of analyze_stock on one indicator snapshot *)

\* number of price levels the snapshot's price and averages are drawn from
PriceLevels == 4

PriceVals == {k * Unit : k \in 1..PriceLevels}
RsiVals == {NaN, 20000, 30000, 40000, 50000, 70000, 70001}
MacdVals == {NaN, -300, -15, 0, 9, 255}
ChangeVals == {-5000, -250, 1000, 7000, 7001}
VolumeVals == {1000, 1200, 3000}

Snapshots ==
    [current_price : PriceVals, sma_5 : PriceVals, sma_20 : PriceVals,
     sma_60 : PriceVals, rsi : RsiVals, macd_histogram : MacdVals,
     price_change_pct : ChangeVals, volume_ratio : VolumeVals]

ScoreInit ==
    /\ args \in Snapshots
    /\ ScoreStart
    /\ ScanIdle
    /\ RsiIdle
    /\ ExtIdle

\* sector_scanner.py 101-104
ScoreTrend ==
    /\ pc = "trend"
    /\ LET r == determine_trend(args) IN
         IF r.raised
         THEN /\ pc' = "raised"
              /\ UNCHANGED <<trend, trend_score>>
         ELSE /\ pc' = "strength"
              /\ trend' = r.trend
              /\ trend_score' = r.score
    /\ UNCHANGED <<args, strength_score, buy_signal, scan_vars, rsi_vars, ext_vars>>

\* sector_scanner.py 107-110
ScoreStrength ==
    /\ pc = "strength"
    /\ strength_score' = _calculate_strength_score(
            args.price_change_pct, args.volume_ratio, args.rsi,
            trend_score, args.current_price, args.sma_20)
    /\ pc' = "buy"
    /\ UNCHANGED <<args, trend, trend_score, buy_signal, scan_vars, rsi_vars, ext_vars>>

\* sector_scanner.py 113-116
ScoreBuySignal ==
    /\ pc = "buy"
    /\ buy_signal' = _check_buy_signal(
            args.current_price, args.sma_5, args.sma_20, args.rsi,
            args.macd_histogram, args.volume_ratio, args.price_change_pct)
    /\ pc' = "done"
    /\ UNCHANGED <<args, trend, trend_score, strength_score, scan_vars, rsi_vars, ext_vars>>

ScoreNext == ScoreTrend \/ ScoreStrength \/ ScoreBuySignal

SpecScore == ScoreInit /\ [][ScoreNext]_vars

---------------------------------------------------------------------------
(* Claims about the scoring functions, checked under SpecScore *)

TrendReturned == pc \in {"strength", "buy", "done"}
StrengthReturned == pc \in {"buy", "done"}

\* C1: whenever determine_trend returns, its score lies in [-100, 100], and
\* whenever _calculate_strength_score returns, its score lies in [0, 100].
C1_ScoresInRange ==
    /\ TrendReturned => (trend_score >= -100 /\ trend_score <= 100)
    /\ StrengthReturned => (strength_score >= 0 /\ strength_score <= 100 * Unit)

\* the terms of the strength score add up to more than 100 and 100 is returned
C1_Witness ==
    /\ pc = "done"
    /\ strength_score = 100 * Unit
    /\ args.price_change_pct = 7000 /\ args.volume_ratio = 3000
    /\ trend_score = 85

\* C2: the label is decided by the score alone, in five disjoint ranges:
\* >= 50 STRONG_BULLISH, [20, 50) BULLISH, <= -50 STRONG_BEARISH,
\* (-50, -20] BEARISH, everything else NEUTRAL.
C2_LabelBuckets ==
    TrendReturned =>
        /\ (trend = "STRONG_BULLISH") <=> (trend_score >= 50)
        /\ (trend = "BULLISH") <=> (trend_score >= 20 /\ trend_score < 50)
        /\ (trend = "STRONG_BEARISH") <=> (trend_score <= -50)
        /\ (trend = "BEARISH") <=> (trend_score > -50 /\ trend_score <= -20)
        /\ (trend = "NEUTRAL") <=> (trend_score > -20 /\ trend_score < 20)

\* a score exactly on the strong threshold
C2_Witness == TrendReturned /\ trend_score = 50 /\ trend = "STRONG_BULLISH"

\* the five conditions of the buy signal, read off the snapshot
BuyConditions ==
    {c \in 1..5 :
        \/ c = 1 /\ args.current_price > args.sma_5 /\ args.sma_5 > args.sma_20
        \/ c = 2 /\ args.rsi >= 40000 /\ args.rsi <= 70000
        \/ c = 3 /\ ~IsNaN(args.macd_histogram) /\ args.macd_histogram > 0
        \/ c = 4 /\ args.volume_ratio > 1200
        \/ c = 5 /\ args.price_change_pct >= 1000 /\ args.price_change_pct <= 7000}

---------------------------------------------------------------------------
(* MarketAnalyzer.calculate_rsi, in exact fractions extended by the two
   special values float division produces: x/0 is inf for x > 0 and 0/0 is
   NaN (pandas divides without raising).  The sign of a zero is not
   modelled: it changes neither of the two. *)

FInf == [kind |-> "inf", num |-> 1, den |-> 1]
Fin(n, d) == [kind |-> "fin", num |-> n, den |-> d]

\* a / b for a >= 0 and b >= 0
FDiv(a, b) ==
    IF a.kind = "nan" \/ b.kind = "nan" THEN FNaN
    ELSE IF a.kind = "inf" THEN (IF b.kind = "inf" THEN FNaN ELSE FInf)
    ELSE IF b.kind = "inf" THEN Fin(0, 1)
    ELSE IF b.num = 0 THEN (IF a.num = 0 THEN FNaN ELSE FInf)
    ELSE Fin(a.num * b.den, a.den * b.num)

\* a + b for b >= 0
FAdd(a, b) ==
    IF a.kind = "nan" \/ b.kind = "nan" THEN FNaN
    ELSE IF a.kind = "inf" \/ b.kind = "inf" THEN FInf
    ELSE Fin(a.num * b.den + b.num * a.den, a.den * b.den)

\* a - b for finite a
FSub(a, b) ==
    IF a.kind = "nan" \/ b.kind = "nan" THEN FNaN
    ELSE IF b.kind = "inf" THEN [kind |-> "inf", num |-> -1, den |-> 1]
    ELSE Fin(a.num * b.den - b.num * a.den, a.den * b.den)

\* the window of calculate_rsi, market_analyzer.py 65
RsiPeriod == 14

\* line 67-68: delta.where(delta > 0, 0) at bar i; the first delta is NaN and
\* is replaced by 0 like every delta that is not a gain
GainAt(data, i) ==
    IF i > 1 /\ data[i] - data[i - 1] > 0 THEN data[i] - data[i - 1] ELSE 0

\* line 69: -delta.where(delta < 0, 0) at bar i
LossAt(data, i) ==
    IF i > 1 /\ data[i] - data[i - 1] < 0 THEN -(data[i] - data[i - 1]) ELSE 0

RECURSIVE GainSum(_, _, _)
GainSum(data, from, to) ==
    IF from > to THEN 0 ELSE GainAt(data, from) + GainSum(data, from + 1, to)

RECURSIVE LossSum(_, _, _)
LossSum(data, from, to) ==
    IF from > to THEN 0 ELSE LossAt(data, from) + LossSum(data, from + 1, to)

\* rolling(window=period).mean() at the last bar: NaN until the window is full
RollingGain(data, period) ==
    IF Len(data) < period THEN FNaN
    ELSE Fin(GainSum(data, Len(data) - period + 1, Len(data)), period)

RollingLoss(data, period) ==
    IF Len(data) < period THEN FNaN
    ELSE Fin(LossSum(data, Len(data) - period + 1, Len(data)), period)

\* market_analyzer.py 65-73, the value at the last bar (.iloc[-1])
calculate_rsi(data, period) ==
    LET gain == RollingGain(data, period)
        loss == RollingLoss(data, period)
        rs == FDiv(gain, loss)
    IN FSub(Fin(100, 1), FDiv(Fin(100, 1), FAdd(Fin(1, 1), rs)))

\* longest close series
MaxBars == 16

CloseVals == {100, 101}

CloseSeries == UNION {[1..n -> CloseVals] : n \in (RsiPeriod - 1)..MaxBars}

RsiInit ==
    /\ close \in CloseSeries
    /\ rsi_pc = "start"
    /\ rsi_value = FNaN
    /\ args = StrongSnap
    /\ ScoreStart
    /\ ScanIdle
    /\ ExtIdle

\* sector_scanner.py 92: self.analyzer.calculate_rsi(close).iloc[-1]
CalculateRsi ==
    /\ rsi_pc = "start"
    /\ rsi_value' = calculate_rsi(close, RsiPeriod)
    /\ rsi_pc' = "done"
    /\ UNCHANGED <<close, score_vars, scan_vars, ext_vars>>

RsiNext == CalculateRsi

SpecRsi == RsiInit /\ [][RsiNext]_vars

---------------------------------------------------------------------------
(* Claims about calculate_rsi, checked under SpecRsi *)

\* bars whose delta lies in the trailing window of 14 deltas
Trailing == (Len(close) - RsiPeriod + 1)..Len(close)

NoTrailingLoss == \A i \in Trailing : close[i] >= close[i - 1]

\* C10 (as claimed): whenever the losses of the trailing 14 deltas sum to
\* zero the final RSI is 100, and the final RSI is never NaN and never
\* negative, also for a flat series.
C10_RsiSaturates ==
    (rsi_pc = "done" /\ Len(close) > RsiPeriod) =>
        /\ NoTrailingLoss =>
               (rsi_value.kind = "fin" /\ rsi_value.num = 100 * rsi_value.den)
        /\ rsi_value.kind # "nan"
        /\ rsi_value.kind = "fin" => rsi_value.num * rsi_value.den >= 0

---------------------------------------------------------------------------
(* MarketAnalyzer.calculate_ema, calculate_macd and analyze_index on a close
   series.  A close is a whole number of ticks.  The exponential averages are
   kept in fixed point, EmaScale units per tick, and every step of the
   recurrence rounds down: after any number of steps an average of span n is
   less than (n + 1) / 2 units below its exact value, so the histogram at the
   last bar is within 45 units (0.00045 tick) of the exact one. *)

\* fixed-point units per tick
EmaScale == 100 * Unit

\* calculate_macd's default spans, market_analyzer.py 78-80
MacdFast == 12
MacdSlow == 26
MacdSignal == 9

\* analyze_index gives up below this many bars, market_analyzer.py 240
IndexMinBars == 60

\* one step of ewm(span=period, adjust=False).mean():
\* y[t] = (1 - a) * y[t-1] + a * x[t] with a = 2 / (period + 1)
EmaStep(prev, x, period) == ((period - 1) * prev + 2 * x) \div (period + 1)

RECURSIVE EmaRun(_, _, _, _, _)
\* the averages of bars lo..hi, given the average prev of bar lo - 1; the
\* range is halved so that the evaluation nests only a few levels deep
EmaRun(data, period, lo, hi, prev) ==
    IF lo > hi THEN <<>>
    ELSE IF lo = hi THEN <<EmaStep(prev, data[lo], period)>>
    ELSE LET mid == (lo + hi) \div 2
             left == EmaRun(data, period, lo, mid, prev)
         IN left \o EmaRun(data, period, mid + 1, hi, left[Len(left)])

\* market_analyzer.py 61-63: the whole averaged series; y[1] = x[1]
calculate_ema(data, period) ==
    IF Len(data) = 0 THEN <<>>
    ELSE <<data[1]>> \o EmaRun(data, period, 2, Len(data), data[1])

\* market_analyzer.py 83-87: the MACD line and the signal line at the last bar
MacdLines(data, fast, slow, signal) ==
    LET ema_fast == calculate_ema(data, fast)
        ema_slow == calculate_ema(data, slow)
        macd_line == [t \in 1..Len(data) |-> ema_fast[t] - ema_slow[t]]
        signal_line == calculate_ema(macd_line, signal)
    IN [macd |-> macd_line[Len(data)], signal |-> signal_line[Len(data)]]

\* line 88 with the operands of the subtraction exchanged
CalculateMacdSwapped(data, fast, slow, signal) ==
    LET l == MacdLines(data, fast, slow, signal)
    IN [macd |-> l.macd, signal |-> l.signal, histogram |-> l.signal - l.macd]

\* market_analyzer.py 75-90, the three values at the last bar (.iloc[-1])
calculate_macd(data, fast, slow, signal) ==
    LET l == MacdLines(data, fast, slow, signal)
    IN [macd |-> l.macd, signal |-> l.signal, histogram |-> l.macd - l.signal]

RECURSIVE SumRange(_, _, _)
\* data[lo] + ... + data[hi]
SumRange(data, lo, hi) ==
    IF lo > hi THEN 0
    ELSE IF lo = hi THEN data[lo]
    ELSE SumRange(data, lo, (lo + hi) \div 2) + SumRange(data, (lo + hi) \div 2 + 1, hi)

\* n times rolling(window=n).mean() at the last bar, market_analyzer.py 57-59
SumLast(data, n) == SumRange(data, Len(data) - n + 1, Len(data))

\* a fixed-point value as a float in thousandths, cut toward zero
ToThousandths(x) ==
    IF x >= 0 THEN x \div (EmaScale \div Unit)
    ELSE -((-x) \div (EmaScale \div Unit))

\* a fraction of calculate_rsi as a float in thousandths; 100 - 100 / (1 + rs)
\* is finite or NaN for every rs calculate_rsi can form
RsiFloat(f) ==
    IF f.kind = "fin" THEN (f.num * Unit) \div f.den ELSE NaN

\* market_analyzer.py 245-261: the arguments analyze_index hands to
\* determine_trend.  The price and the three averages are only compared with
\* each other; they are given 60-fold, which keeps the averages whole.
\* price_change_pct is in thousandths (the series never falls).
IndexSnapshot(data) ==
    LET n == Len(data)
        current_price == data[n]
        prev_price == data[n - 1]
    IN [current_price |-> 60 * current_price,
        sma_5 |-> 12 * SumLast(data, 5),
        sma_20 |-> 3 * SumLast(data, 20),
        sma_60 |-> SumLast(data, 60),
        rsi |-> RsiFloat(calculate_rsi(data, RsiPeriod)),
        macd_histogram |-> ToThousandths(
            calculate_macd([t \in 1..n |-> data[t] * EmaScale],
                           MacdFast, MacdSlow, MacdSignal).histogram),
        price_change_pct |-> ((current_price - prev_price) * 100 * Unit) \div prev_price,
        volume_ratio |-> Unit]

\* analyze_index returned None
NoIndex == [kind |-> "none", trend |-> "NEUTRAL", trend_score |-> 0, rsi |-> 0]

\* market_analyzer.py 238-301, given the frame get_stock_data returned; of
\* the MarketAnalysis only trend, trend_score and rsi are kept
analyze_index(data) ==
    IF Len(data) < IndexMinBars THEN NoIndex
    ELSE LET a == IndexSnapshot(data)
             t == determine_trend(a)
         IN IF t.raised THEN NoIndex
            ELSE [kind |-> "ok", trend |-> t.trend, trend_score |-> t.score,
                  rsi |-> a.rsi]

\* number of bars of the series analysed
SeriesBars == 90

\* largest rise of the close from one bar to the next, in ticks
MaxStep == 3

\* a series that starts at SeriesBars ticks, rises by d1 ticks a bar for k bars
\* and by d2 ticks a bar from then on
Ramp(k, d1, d2) ==
    [t \in 1..SeriesBars |->
        SeriesBars + d1 * (IF t - 1 < k THEN t - 1 ELSE k)
                   + d2 * (IF t - 1 < k THEN 0 ELSE t - 1 - k)]

Ramps ==
    {Ramp(k, d1, d2) : k \in 0..(SeriesBars - 1), d1 \in 0..MaxStep, d2 \in 0..MaxStep}

IndexInit ==
    /\ series \in Ramps
    /\ index_pc = "indicators"
    /\ histogram = 0
    /\ index_analysis = NoIndex
    /\ args = StrongSnap
    /\ ScoreStart
    /\ ScanIdle
    /\ RsiIdle
    /\ OutlookIdle
    /\ DiscIdle
    /\ AllIdle
    /\ TopIdle
    /\ BotIdle
    /\ LaterIdle

\* market_analyzer.py 258-261: the histogram at the last bar
IndexIndicators ==
    /\ index_pc = "indicators"
    /\ histogram' = calculate_macd([t \in 1..Len(series) |-> series[t] * EmaScale],
                                   MacdFast, MacdSlow, MacdSignal).histogram
    /\ index_pc' = "trend"
    /\ UNCHANGED <<series, index_analysis, not_index_vars>>

\* market_analyzer.py 267-297: determine_trend on the indicators and the
\* MarketAnalysis returned
IndexTrend ==
    /\ index_pc = "trend"
    /\ index_analysis' = analyze_index(series)
    /\ index_pc' = "done"
    /\ UNCHANGED <<series, histogram, not_index_vars>>

IndexNext == IndexIndicators \/ IndexTrend

SpecIndex == IndexInit /\ [][IndexNext]_vars

---------------------------------------------------------------------------
(* Claims about calculate_macd and analyze_index, checked under SpecIndex *)

StrictlyIncreasing(s) == \A t \in 2..Len(s) : s[t] > s[t - 1]

NonDecreasing(s) == \A t \in 2..Len(s) : s[t] >= s[t - 1]

\* no rise is smaller than the rise before it
RisesNeverShrink(s) ==
    \A t \in 3..Len(s) : s[t] - s[t - 1] >= s[t - 1] - s[t - 2]

IndicatorsDone == index_pc \in {"trend", "done"}

\* C11 (as claimed): for every rising 90-bar close series, also one whose
\* rises shrink over time, the MACD histogram at the final bar is >= 0.
C11_HistogramNonNegative ==
    (IndicatorsDone /\ StrictlyIncreasing(series)) => histogram >= 0

\* C11 (amended): for every 90-bar close series that never falls and whose
\* rise from one bar to the next never shrinks, the MACD histogram at the
\* final bar is >= 0.
C11_HistogramNonNegativeSteadyRise ==
    (IndicatorsDone /\ NonDecreasing(series) /\ RisesNeverShrink(series)) =>
        histogram >= 0

\* a series that rises faster at its end than at its start
C11_Witness ==
    /\ IndicatorsDone
    /\ StrictlyIncreasing(series)
    /\ RisesNeverShrink(series)
    /\ series[Len(series)] - series[Len(series) - 1] > series[2] - series[1]
    /\ histogram > 0

---------------------------------------------------------------------------
(* TrendPredictor.generate_market_outlook *)

\* predictor.py 477-486: the factors the index analysis contributes
IndexBullish(index) ==
    IF index.kind = "none" THEN <<>>
    ELSE (IF index.trend \in {"STRONG_BULLISH", "BULLISH"} THEN <<"index trend">> ELSE <<>>)
         \o (IF ~Gt(index.rsi, 70 * Unit) /\ Lt(index.rsi, 30 * Unit)
             THEN <<"RSI oversold">> ELSE <<>>)

IndexBearish(index) ==
    IF index.kind = "none" THEN <<>>
    ELSE (IF index.trend \in {"STRONG_BEARISH", "BEARISH"} THEN <<"index trend">> ELSE <<>>)
         \o (IF Gt(index.rsi, 70 * Unit) THEN <<"RSI overheated">> ELSE <<>>)

\* predictor.py 495-496
StrongSectors(sectors) ==
    {i \in 1..Len(sectors) : MeanGe(sectors[i].strength_score, 60 * Unit)}

\* line 496 passing over the sectors in which nothing was scored
WeakSectorsScored(sectors) ==
    {i \in 1..Len(sectors) :
        sectors[i].stock_count > 0 /\ MeanLe(sectors[i].strength_score, 40 * Unit)}

WeakSectors(sectors) ==
    {i \in 1..Len(sectors) : MeanLe(sectors[i].strength_score, 40 * Unit)}

\* predictor.py 494-501: "more than half of the sectors"
SectorBullish(sectors) ==
    IF 2 * Cardinality(StrongSectors(sectors)) > Len(sectors)
    THEN <<"strong sectors">> ELSE <<>>

SectorBearish(sectors) ==
    IF 2 * Cardinality(WeakSectors(sectors)) > Len(sectors)
    THEN <<"weak sectors">> ELSE <<>>

\* lines 511-535 with the first test strict
OutlookDirectionStrict(b, r) ==
    IF b > r + 2 THEN [direction |-> "STRONG_UP", confidence |-> "HIGH"]
    ELSE IF b > r THEN [direction |-> "UP", confidence |-> "MEDIUM"]
    ELSE IF r >= b + 2 THEN [direction |-> "STRONG_DOWN", confidence |-> "HIGH"]
    ELSE IF r > b THEN [direction |-> "DOWN", confidence |-> "MEDIUM"]
    ELSE [direction |-> "NEUTRAL", confidence |-> "LOW"]

\* predictor.py 508-535
OutlookDirection(b, r) ==
    IF b >= r + 2 THEN [direction |-> "STRONG_UP", confidence |-> "HIGH"]
    ELSE IF b > r THEN [direction |-> "UP", confidence |-> "MEDIUM"]
    ELSE IF r >= b + 2 THEN [direction |-> "STRONG_DOWN", confidence |-> "HIGH"]
    ELSE IF r > b THEN [direction |-> "DOWN", confidence |-> "MEDIUM"]
    ELSE [direction |-> "NEUTRAL", confidence |-> "LOW"]

\* predictor.py 472-546; observations, strategy and risk are left out
generate_market_outlook(index, sectors) ==
    LET bullish_factors == IndexBullish(index) \o SectorBullish(sectors)
        bearish_factors == IndexBearish(index) \o SectorBearish(sectors)
        d == OutlookDirection(Len(bullish_factors), Len(bearish_factors))
    IN [bullish_factors |-> bullish_factors,
        bearish_factors |-> bearish_factors,
        direction |-> d.direction,
        confidence |-> d.confidence]

\* longest list of sector analyses
MaxSectors == 3

TrendLabels == {"STRONG_BULLISH", "BULLISH", "NEUTRAL", "BEARISH", "STRONG_BEARISH"}

\* index analyses: every label with an RSI on and next to the two thresholds,
\* and no analysis at all
OutlookIndexes ==
    {NoIndex} \cup
    [kind : {"ok"}, trend : TrendLabels, trend_score : {0},
     rsi : {NaN, 29999, 30000, 70000, 70001}]

\* sector analyses: the sentinel of a sector in which nothing was scored,
\* and scored sectors by strength_score on and next to the two thresholds
OutlookSectorLists ==
    UNION {[1..n -> {EmptySector} \cup
                    {[EmptySector EXCEPT !.strength_score = Exact(x),
                                         !.stock_count = 1] :
                        x \in {40000, 40001, 59999, 60000}}] : n \in 0..MaxSectors}

OutlookInit ==
    /\ outlook_index \in OutlookIndexes
    /\ outlook_sectors \in OutlookSectorLists
    /\ outlook_pc = "start"
    /\ outlook = [bullish_factors |-> <<>>, bearish_factors |-> <<>>,
                  direction |-> "NEUTRAL", confidence |-> "LOW"]
    /\ args = StrongSnap
    /\ ScoreStart
    /\ ScanIdle
    /\ RsiIdle
    /\ IndexIdle
    /\ DiscIdle
    /\ AllIdle
    /\ TopIdle
    /\ BotIdle
    /\ LaterIdle

GenerateOutlook ==
    /\ outlook_pc = "start"
    /\ outlook' = generate_market_outlook(outlook_index, outlook_sectors)
    /\ outlook_pc' = "done"
    /\ UNCHANGED <<outlook_index, outlook_sectors, not_outlook_vars>>

OutlookNext == GenerateOutlook

SpecOutlook == OutlookInit /\ [][OutlookNext]_vars

---------------------------------------------------------------------------
(* Claims about generate_market_outlook, checked under SpecOutlook *)

\* the numbers of factors in the outlook returned
OutlookB == Len(outlook.bullish_factors)
OutlookR == Len(outlook.bearish_factors)

\* C13: b >= r+2 gives STRONG_UP/HIGH; otherwise b > r gives UP/MEDIUM;
\* otherwise r >= b+2 gives STRONG_DOWN/HIGH; otherwise r > b gives
\* DOWN/MEDIUM; b = r gives NEUTRAL/LOW.
C13_OutlookTable ==
    outlook_pc = "done" =>
        /\ OutlookB >= OutlookR + 2 => (outlook.direction = "STRONG_UP" /\ outlook.confidence = "HIGH")
        /\ (OutlookB > OutlookR /\ OutlookB < OutlookR + 2) => (outlook.direction = "UP" /\ outlook.confidence = "MEDIUM")
        /\ OutlookR >= OutlookB + 2 => (outlook.direction = "STRONG_DOWN" /\ outlook.confidence = "HIGH")
        /\ (OutlookR > OutlookB /\ OutlookR < OutlookB + 2) => (outlook.direction = "DOWN" /\ outlook.confidence = "MEDIUM")
        /\ OutlookB = OutlookR => (outlook.direction = "NEUTRAL" /\ outlook.confidence = "LOW")

\* three bullish factors and no bearish one
C13_Witness ==
    /\ outlook_pc = "done"
    /\ OutlookB = 3
    /\ OutlookR = 0
    /\ outlook.direction = "STRONG_UP"
    /\ outlook.confidence = "HIGH"

\* the sentinels among the sectors handed to generate_market_outlook
Sentinels == {i \in DOMAIN outlook_sectors : outlook_sectors[i] = EmptySector}

\* the scored sectors with a mean strength of 40 or less
ScoredWeak ==
    {i \in DOMAIN outlook_sectors :
        /\ outlook_sectors[i].stock_count > 0
        /\ outlook_sectors[i].strength_score.num
               <= 40 * Unit * outlook_sectors[i].strength_score.den}

HasFactor(factors, name) == \E k \in DOMAIN factors : factors[k] = name

\* C29: a sentinel sector counts as a weak sector and in the total number of
\* sectors, so that a bearish factor is added when more than half of the
\* sectors are sentinels or otherwise at 40 or below; the strong-sector
\* bullish factor and the weak-sector bearish factor are never both added.
C29_SentinelCountsAsWeak ==
    outlook_pc = "done" =>
        /\ 2 * Cardinality(Sentinels \cup ScoredWeak) > Len(outlook_sectors) =>
               HasFactor(outlook.bearish_factors, "weak sectors")
        /\ ~(/\ HasFactor(outlook.bullish_factors, "strong sectors")
             /\ HasFactor(outlook.bearish_factors, "weak sectors"))

\* two sentinels beside one strong sector: the weak-sector factor is added
C29_Witness ==
    /\ outlook_pc = "done"
    /\ Len(outlook_sectors) = 3
    /\ Cardinality(Sentinels) = 2
    /\ ScoredWeak = {}
    /\ Cardinality(StrongSectors(outlook_sectors)) = 1
    /\ HasFactor(outlook.bearish_factors, "weak sectors")
    /\ outlook.bullish_factors = <<>>

---------------------------------------------------------------------------
(* StockDiscovery.discover_tw_movers and _analyze_candidates.  The discovery
   uses the scanner and the fetcher of the bot (main.py 53), so it reads the
   provider through market and fills the same cache. *)

\* number of symbols in TW_DISCOVERY_UNIVERSE
MaxUniverse == 4

UniverseOrder == <<"AAA", "BBB", "CCC", "DDD", "EEE", "FFF">>

\* stock_discovery.py 19-38: a fixed list of distinct symbols
DiscoveryUniverse == [k \in 1..MaxUniverse |-> UniverseOrder[k]]

\* a frame with a volume surge and a small gain on a weak trend
SurgeSnap == [WeakSnap EXCEPT !.volume_ratio = 1600, !.price_change_pct = 250]

\* a strong trend on an average volume
QuietSnap == [StrongSnap EXCEPT !.volume_ratio = 1000]

DiscMarketStates == MarketStates \cup {"surge"}

\* what ticker.history can do for a symbol in that state
DiscResponses(state) ==
    IF state = "surge" THEN {[fetch |-> "ok", frame |-> Frame(60, SurgeSnap)]}
    ELSE IF state = "quiet" THEN {[fetch |-> "ok", frame |-> Frame(60, QuietSnap)]}
    ELSE Responses(state)

\* the values of top_n tried; 10 is the default (stock_discovery.py 123)
TopNs == {1, 2, 10}

\* stock_discovery.py 150
IsStrict(a) == Gt(a.volume_ratio, 1500) /\ Gt(a.price_change_pct, 0)

\* stock_discovery.py 157
IsRelaxed(a) == Gt(a.volume_ratio, 1000) /\ Gt(a.price_change_pct, 0)

\* stock_discovery.py 75-76: "if analysis and analysis.strength_score > 0"
Kept(results, analysis) ==
    IF analysis.kind = "ok" /\ Gt(analysis.strength_score, 0)
    THEN Append(results, analysis) ELSE results

\* line 79 sleeping after every candidate
AlwaysDelay(i, n) == TRUE

\* stock_discovery.py 79: "if i < len(symbols) - 1", for the i-th of n
\* candidates counted from 1
NeedsDelay(i, n) == i < n

\* stock_discovery.py 148-160, on the list _analyze_candidates returned
FilterMovers(results, top_n) ==
    LET strict == SelectSeq(results, IsStrict)
        relaxed == Len(strict) < 3
        filtered == IF relaxed THEN SelectSeq(results, IsRelaxed) ELSE strict
    IN [relaxed |-> relaxed, movers |-> Take(filtered, top_n)]

DiscInit ==
    /\ disc_market \in {"TW", "US"}
    /\ watchlist \in SUBSET Listed(DiscoveryUniverse)
    /\ disc_top_n \in TopNs
    /\ market \in {m \in [Listed(DiscoveryUniverse) -> DiscMarketStates] :
                      \A sym \in watchlist : m[sym] = "weak"}
    /\ cache = <<>>
    /\ symbols = <<>>
    /\ futures = <<>>
    /\ stock_analyses = <<>>
    /\ scan_pc = "idle"
    /\ sector = EmptySector
    /\ candidates = <<>>
    /\ disc_i = 0
    /\ disc_pc = "start"
    /\ in_flight = 0
    /\ started = <<>>
    /\ delays = 0
    /\ disc_results = <<>>
    /\ disc_relaxed = FALSE
    /\ discovered = <<>>
    /\ args = StrongSnap
    /\ ScoreStart
    /\ RsiIdle
    /\ IndexIdle
    /\ OutlookIdle
    /\ AllIdle
    /\ TopIdle
    /\ BotIdle
    /\ LaterIdle

\* stock_discovery.py 137-145: the universe without the watchlist; nothing
\* to analyse returns []
DiscStart ==
    /\ disc_pc = "start"
    /\ disc_market = "TW"
    /\ LET NotWatched(sym) == sym \notin watchlist IN
         candidates' = SelectSeq(DiscoveryUniverse, NotWatched)
    /\ IF candidates' = <<>>
       THEN disc_pc' = "done" /\ disc_i' = 0
       ELSE disc_pc' = "call" /\ disc_i' = 1
    /\ UNCHANGED <<disc_market, watchlist, disc_top_n, in_flight, started, delays,
                   disc_results, disc_relaxed, discovered, market, cache, not_disc_vars>>

\* what yf.screen can answer: it raises, or returns quotes whose symbol may
\* be missing
ScreenResults ==
    {[ok |-> FALSE, quotes |-> <<>>],
     [ok |-> TRUE, quotes |-> <<>>],
     [ok |-> TRUE, quotes |-> <<UniverseOrder[1], UniverseOrder[2]>>],
     [ok |-> TRUE, quotes |-> <<UniverseOrder[2], "", UniverseOrder[3]>>]}

RECURSIVE AddQuotes(_, _, _)
\* stock_discovery.py 106-109: a quote's symbol is appended unless it is
\* empty, watchlisted or already a candidate
AddQuotes(found, quotes, wl) ==
    IF quotes = <<>> THEN found
    ELSE LET symbol == Head(quotes) IN
         IF symbol # "" /\ symbol \notin wl /\ symbol \notin Listed(found)
         THEN AddQuotes(Append(found, symbol), Tail(quotes), wl)
         ELSE AddQuotes(found, Tail(quotes), wl)

\* the screeners' symbols with the watchlist left in
ScreenCandidatesWatched(actives, gainers, wl) ==
    LET first == IF actives.ok THEN AddQuotes(<<>>, actives.quotes, {}) ELSE <<>>
    IN IF gainers.ok THEN AddQuotes(first, gainers.quotes, {}) ELSE first

\* stock_discovery.py 102-111: most_actives, then day_gainers; a screener
\* that raises is skipped
ScreenCandidates(actives, gainers, wl) ==
    LET first == IF actives.ok THEN AddQuotes(<<>>, actives.quotes, wl) ELSE <<>>
    IN IF gainers.ok THEN AddQuotes(first, gainers.quotes, wl) ELSE first

\* stock_discovery.py 99-121: the screeners' symbols without the watchlist,
\* cut to 2 * top_n; nothing to analyse returns []
DiscStartUs ==
    /\ disc_pc = "start"
    /\ disc_market = "US"
    /\ \E actives \in ScreenResults, gainers \in ScreenResults :
         candidates' = Take(ScreenCandidates(actives, gainers, watchlist),
                            disc_top_n * 2)
    /\ IF candidates' = <<>>
       THEN disc_pc' = "done" /\ disc_i' = 0
       ELSE disc_pc' = "call" /\ disc_i' = 1
    /\ UNCHANGED <<disc_market, watchlist, disc_top_n, in_flight, started, delays,
                   disc_results, disc_relaxed, discovered, market, cache, not_disc_vars>>

\* stock_discovery.py 74: analyze_stock is entered for the candidate at disc_i
DiscCall ==
    /\ disc_pc = "call"
    /\ in_flight' = in_flight + 1
    /\ started' = Append(started, candidates[disc_i])
    /\ disc_pc' = "in_call"
    /\ UNCHANGED <<disc_market, watchlist, disc_top_n, candidates, disc_i, delays,
                   disc_results, disc_relaxed, discovered, market, cache, not_disc_vars>>

\* the loop goes on with the next candidate or ends, stock_discovery.py 73, 82
AfterCandidate ==
    IF disc_i < Len(candidates)
    THEN disc_pc' = "call" /\ disc_i' = disc_i + 1
    ELSE disc_pc' = "sort" /\ disc_i' = disc_i

\* stock_discovery.py 74-79: analyze_stock returns and its result is kept or
\* dropped
DiscReturn ==
    /\ disc_pc = "in_call"
    /\ \E fresh \in BOOLEAN, resp \in DiscResponses(market[candidates[disc_i]]) :
         LET got == get_stock_data(cache, candidates[disc_i], fresh, resp)
             analysis == analyze_stock(candidates[disc_i], got.data)
         IN /\ cache' = got.cache
            /\ in_flight' = in_flight - 1
            /\ IF analysis.kind = "raise"
               THEN /\ disc_pc' = "raised"
                    /\ UNCHANGED <<disc_i, disc_results>>
               ELSE /\ disc_results' = Kept(disc_results, analysis)
                    /\ IF NeedsDelay(disc_i, Len(candidates))
                       THEN disc_pc' = "sleep" /\ disc_i' = disc_i
                       ELSE AfterCandidate
    /\ UNCHANGED <<disc_market, watchlist, disc_top_n, candidates, started, delays,
                   disc_relaxed, discovered, market, not_disc_vars>>

\* stock_discovery.py 80: time.sleep(self.fetch_delay)
DiscSleep ==
    /\ disc_pc = "sleep"
    /\ delays' = delays + 1
    /\ AfterCandidate
    /\ UNCHANGED <<disc_market, watchlist, disc_top_n, candidates, in_flight, started,
                   disc_results, disc_relaxed, discovered, market, cache, not_disc_vars>>

\* stock_discovery.py 82-83, then 145-160 or 121: the results are sorted
\* and cut, for Taiwan to 2 * top_n before they are filtered and cut to
\* top_n, for the US to top_n.  disc_results keeps the sorted list before
\* the first cut.
DiscFinish ==
    /\ disc_pc = "sort"
    /\ LET sorted == SortedByStrength(disc_results)
           f == FilterMovers(Take(sorted, disc_top_n * 2), disc_top_n)
       IN /\ disc_results' = sorted
          /\ IF disc_market = "TW"
             THEN disc_relaxed' = f.relaxed /\ discovered' = f.movers
             ELSE disc_relaxed' = FALSE /\ discovered' = Take(sorted, disc_top_n)
    /\ disc_pc' = "done"
    /\ UNCHANGED <<disc_market, watchlist, disc_top_n, candidates, disc_i, in_flight,
                   started, delays, market, cache, not_disc_vars>>

DiscNext ==
    \/ DiscStart
    \/ DiscStartUs
    \/ DiscCall
    \/ DiscReturn
    \/ DiscSleep
    \/ DiscFinish

SpecDiscovery == DiscInit /\ [][DiscNext]_vars

---------------------------------------------------------------------------
(* Claims about the discovery, checked under SpecDiscovery *)

\* the scored candidates that satisfy the strict filter
StrictScored == SelectSeq(disc_results, IsStrict)

\* C14 (as claimed): the strict filter is applied first; the result consists
\* only of strict-filter candidates whenever at least 3 scored candidates
\* satisfy the strict filter, and the relaxed filter is used if and only if
\* fewer than 3 scored candidates satisfy the strict filter.
C14_StrictFirst ==
    (disc_pc = "done" /\ disc_market = "TW" /\ candidates # <<>>) =>
        /\ Len(StrictScored) >= 3 =>
               \A k \in 1..Len(discovered) : IsStrict(discovered[k])
        /\ disc_relaxed <=> Len(StrictScored) < 3

\* C15: the candidates are analysed one after another in list order, never
\* two at a time, with one delay between the end of a call and the start of
\* the next and no delay after the last candidate.
C15_SequentialWithDelay ==
    /\ in_flight \in {0, 1}
    /\ Len(started) <= Len(candidates)
    /\ started = SubSeq(candidates, 1, Len(started))
    /\ disc_pc = "in_call" => (in_flight = 1 /\ delays = Len(started) - 1)
    /\ disc_pc \in {"call", "sleep", "sort", "done"} => in_flight = 0
    /\ disc_pc = "call" => delays = Len(started)
    /\ (disc_pc \in {"sort", "done"} /\ candidates # <<>>) =>
           (started = candidates /\ delays = Len(candidates) - 1)

\* all candidates of a list of at least three analysed, two delays or more
C15_Witness ==
    /\ disc_pc = "done"
    /\ Len(candidates) >= 3
    /\ started = candidates
    /\ delays = Len(candidates) - 1
    /\ Len(disc_results) >= 2

\* C21: no entry returned by discover_tw_movers or discover_us_movers has a
\* watchlisted symbol, every entry has strength_score > 0, and the list is
\* sorted by strength_score descending and has at most top_n entries.
C21_DiscoveredAreNewAndRanked ==
    /\ \A k \in DOMAIN discovered :
           /\ discovered[k].symbol \notin watchlist
           /\ Gt(discovered[k].strength_score, 0)
    /\ \A k \in 1..(Len(discovered) - 1) :
           discovered[k].strength_score >= discovered[k + 1].strength_score
    /\ Len(discovered) <= disc_top_n

\* the US discovery has returned a full list though a screener named a
\* watchlisted symbol
C21_WitnessUs ==
    /\ disc_pc = "done"
    /\ disc_market = "US"
    /\ UniverseOrder[2] \in watchlist
    /\ Len(discovered) = disc_top_n
    /\ Len(disc_results) > disc_top_n


---------------------------------------------------------------------------
(* discover_tw_movers on a universe of strong stocks without a volume      *)
(* surge, weak stocks and weaker stocks with a surge                       *)

TwMoversInit ==
    /\ disc_market = "TW"
    /\ watchlist \in SUBSET Listed(DiscoveryUniverse)
    /\ disc_top_n \in {1, 2}
    /\ market \in {m \in [Listed(DiscoveryUniverse) -> {"quiet", "surge", "weak"}] :
                      \A sym \in watchlist : m[sym] = "weak"}
    /\ cache = <<>>
    /\ symbols = <<>>
    /\ futures = <<>>
    /\ stock_analyses = <<>>
    /\ scan_pc = "idle"
    /\ sector = EmptySector
    /\ candidates = <<>>
    /\ disc_i = 0
    /\ disc_pc = "start"
    /\ in_flight = 0
    /\ started = <<>>
    /\ delays = 0
    /\ disc_results = <<>>
    /\ disc_relaxed = FALSE
    /\ discovered = <<>>
    /\ args = StrongSnap
    /\ ScoreStart
    /\ RsiIdle
    /\ IndexIdle
    /\ OutlookIdle
    /\ AllIdle
    /\ TopIdle
    /\ BotIdle
    /\ LaterIdle

TwMoversNext ==
    \/ DiscStart
    \/ DiscCall
    \/ DiscReturn
    \/ DiscSleep
    \/ DiscFinish

SpecTwMovers == TwMoversInit /\ [][TwMoversNext]_vars

\* the filter discover_tw_movers ended up applying
AppliedFilter(a) == IF disc_relaxed THEN IsRelaxed(a) ELSE IsStrict(a)

\* all scored candidates that pass it, strongest first
PassingScored == SelectSeq(disc_results, AppliedFilter)

\* C26 (as claimed): discover_tw_movers returns the top_n strongest among
\* all scored candidates that pass the applied filter: none of them is left
\* out while the result has fewer than top_n entries or holds a weaker entry.
C26_TopAmongAllScored ==
    (disc_pc = "done" /\ disc_market = "TW") =>
        \A k \in DOMAIN PassingScored :
            (\A j \in DOMAIN discovered : discovered[j] # PassingScored[k]) =>
                /\ Len(discovered) >= disc_top_n
                /\ \A j \in DOMAIN discovered :
                       discovered[j].strength_score >= PassingScored[k].strength_score

---------------------------------------------------------------------------
(* SectorScanner.scan_all_sectors: scan_sector is called for one sector
   after the other; each call has a thread pool of its own, which the with
   statement shuts down (waiting for its workers) before scan_sector returns. *)

\* a sector's strength_score is a mean: a is not weaker than b
SectorGe(a, b) ==
    LET x == a.strength_score
        y == b.strength_score
    IN x.den > 0 /\ y.den > 0 /\ x.num * y.den >= y.num * x.den

\* x put into a list sorted by strength_score descending, behind every sector
\* that is not weaker
InsertSectorDesc(sorted, x) ==
    LET ahead == {i \in 1..Len(sorted) : SectorGe(sorted[i], x)}
        k == IF ahead = {} THEN 0 ELSE CHOOSE i \in ahead : \A j \in ahead : j <= i
    IN SubSeq(sorted, 1, k) \o <<x>> \o SubSeq(sorted, k + 1, Len(sorted))

RECURSIVE SortedSectors(_)
\* results.sort(key=strength_score, reverse=True), sector_scanner.py 347
SortedSectors(s) ==
    IF s = <<>> THEN <<>>
    ELSE InsertSectorDesc(SortedSectors(SubSeq(s, 1, Len(s) - 1)), s[Len(s)])

\* longest symbol list of a sector of the whole scan
MaxBatch == 6

BatchOrder == <<"AAA", "BBB", "CCC", "DDD", "EEE", "FFF", "GGG", "HHH">>

\* a sector with more symbols than the pool has workers
BigSector == [k \in 1..MaxBatch |-> BatchOrder[k]]

\* sector symbol lists: none, one symbol (also listed in the big sector), many
SectorLists == {<<>>, <<"AAA">>, BigSector}

\* sectors_config.items() in dict order, at most one big sector
AllConfigs ==
    {c \in UNION {[1..n -> SectorLists] : n \in 0..2} :
        Cardinality({i \in DOMAIN c : c[i] = BigSector}) <= 1}

\* every symbol but the first has a strong series
AllMarkets ==
    {[sym \in Listed(BatchOrder) |-> IF sym = "AAA" THEN "weak" ELSE "strong"]}

ScanAllInit ==
    /\ sectors_config \in AllConfigs
    /\ sector_ix = 0
    /\ sector_results = <<>>
    /\ all_pc = "loop"
    /\ market \in AllMarkets
    /\ symbols = <<>>
    /\ futures = <<>>
    /\ cache = <<>>
    /\ stock_analyses = <<>>
    /\ scan_pc = "idle"
    /\ sector = EmptySector
    /\ args = StrongSnap
    /\ ScoreStart
    /\ RsiIdle
    /\ IndexIdle
    /\ OutlookIdle
    /\ DiscIdle
    /\ TopIdle
    /\ BotIdle
    /\ LaterIdle

\* sector_scanner.py 341-343: scan_sector is called for the next sector
ScanAllBegin ==
    /\ all_pc = "loop"
    /\ sector_ix < Len(sectors_config)
    /\ symbols' = sectors_config[sector_ix + 1]
    /\ futures' = <<>>
    /\ stock_analyses' = <<>>
    /\ sector' = EmptySector
    /\ scan_pc' = "submit"
    /\ all_pc' = "scan"
    /\ UNCHANGED <<sectors_config, sector_ix, sector_results, not_all_vars>>

\* sector_scanner.py 343-344: scan_sector has returned
ScanAllAppend ==
    /\ all_pc = "scan"
    /\ scan_pc = "done"
    /\ sector_results' = Append(sector_results, sector)
    /\ sector_ix' = sector_ix + 1
    /\ all_pc' = "loop"
    /\ UNCHANGED <<sectors_config, symbols, futures, stock_analyses, sector,
                   scan_pc, not_all_vars>>

\* sector_scanner.py 347-349
ScanAllSort ==
    /\ all_pc = "loop"
    /\ sector_ix = Len(sectors_config)
    /\ sector_results' = SortedSectors(sector_results)
    /\ all_pc' = "done"
    /\ UNCHANGED <<sectors_config, sector_ix, symbols, futures, stock_analyses,
                   sector, scan_pc, not_all_vars>>

ScanAllNext ==
    \/ ScanAllBegin
    \/ ScanNext
    \/ ScanAllAppend
    \/ ScanAllSort

SpecScanAll == ScanAllInit /\ [][ScanAllNext]_vars

---------------------------------------------------------------------------
(* Claims about the worker pool, checked under SpecScanAll *)

\* C16: one analyze_stock invocation is issued per entry of the symbols list,
\* at every moment at most 5 of them are in flight, and because the sectors
\* are scanned one after another this holds across the whole scan.
C16_AtMostFiveInFlight ==
    /\ [](/\ Cardinality(Running) <= MaxWorkers
          /\ scan_pc \in {"collect", "done"} => Len(futures) = Len(symbols)
          /\ scan_pc = "done" =>
                 \A i \in DOMAIN futures : futures[i].state = "collected"
          /\ all_pc = "loop" => Running = {})
    /\ [][\A i \in DOMAIN futures :
              (i \in DOMAIN futures' /\ futures[i].state # "queued") =>
                  futures'[i].state # "queued"]_vars

\* the pool is full while a sixth analysis waits, in the second sector scanned
C16_Witness ==
    /\ sector_ix = 1
    /\ Cardinality(Running) = MaxWorkers
    /\ \E i \in DOMAIN futures : futures[i].state = "queued"

---------------------------------------------------------------------------
(* Claims about the fan-in of scan_sector, checked under SpecScan *)

\* the mean of field f over the scored entries, whatever order they came in
ScoredMean(f) == [num |-> SumScored(Scored, f), den |-> Cardinality(Scored)]

ScoredBullish == {i \in Scored : futures[i].result.trend_score > 0}

\* C17: the reduction starts only after every submitted analysis has
\* completed or failed, and stock_count, avg_change_pct, strength_score,
\* bullish_count and trend are the same for every completion order: they are
\* determined by the analyses' results alone.
C17_ReduceAfterAll ==
    /\ [][(scan_pc # "done" /\ scan_pc' = "done") =>
              \A i \in DOMAIN futures : futures[i].state = "collected"]_vars
    /\ [](scan_pc = "done" =>
            /\ sector.stock_count = Cardinality(Scored)
            /\ sector.bullish_count = Cardinality(ScoredBullish)
            /\ Scored # {} =>
                 /\ IsMeanOfScored(sector.avg_change_pct, "price_change_pct")
                 /\ IsMeanOfScored(sector.strength_score, "strength_score")
                 /\ sector.trend = SectorTrend(ScoredMean("strength_score"))
            /\ Scored = {} => sector.trend = "NEUTRAL")

\* three distinct symbols scored, a weak one among them, collected in an order
\* that is not the order of the list
C17_Witness ==
    /\ scan_pc = "done"
    /\ Cardinality(Scored) = 3
    /\ NoSymbolTwice
    /\ stock_analyses[1].symbol = symbols[3]
    /\ sector.bullish_count \in {1, 2}

---------------------------------------------------------------------------
(* get_top_stocks, sector_scanner.py 351-380.  A sector analysis is        *)
(* modelled by its top_stocks list; an entry carries the symbol, the       *)
(* strength score and the sector that produced it.                         *)

RECURSIVE AllStocks(_)
\* all_stocks: the sectors' top_stocks one after another, lines 366-368
AllStocks(sector_analyses) ==
    IF sector_analyses = <<>> THEN <<>>
    ELSE Head(sector_analyses) \o AllStocks(Tail(sector_analyses))

RECURSIVE Dedupe(_, _, _, _)
\* the loop of lines 373-378: an unseen symbol is appended, and the loop
\* stops once the list has top_n entries or more
Dedupe(sorted, seen, unique_stocks, top_n) ==
    IF sorted = <<>> THEN unique_stocks
    ELSE LET stock == Head(sorted) IN
         IF stock.symbol \in seen
         THEN Dedupe(Tail(sorted), seen, unique_stocks, top_n)
         ELSE LET appended == Append(unique_stocks, stock) IN
              IF Len(appended) >= top_n THEN appended
              ELSE Dedupe(Tail(sorted), seen \cup {stock.symbol}, appended, top_n)

get_top_stocks(sector_analyses, top_n) ==
    Dedupe(SortedByStrength(AllStocks(sector_analyses)), {}, <<>>, top_n)

\* largest top_n asked for
MaxTopN == 3

\* longest top_stocks list of a sector
MaxTopStocks == 2

TopSymbols == {"AAA", "BBB", "CCC"}

TopStrengths == {50 * Unit, 60 * Unit}

\* the top_stocks lists scan_sector can return for the sector called name:
\* sorted by strength descending, one entry per symbol
TopStockLists(name) ==
    LET Entries == [symbol : TopSymbols, strength_score : TopStrengths,
                    sector : {name}]
    IN UNION {{l \in [1..n -> Entries] :
                   /\ \A i, j \in 1..n : i # j => l[i].symbol # l[j].symbol
                   /\ \A i \in 1..(n - 1) :
                          l[i].strength_score >= l[i + 1].strength_score}
              : n \in 0..MaxTopStocks}

TopInit ==
    /\ ScanIdle
    /\ args = StrongSnap
    /\ ScoreStart
    /\ RsiIdle
    /\ IndexIdle
    /\ OutlookIdle
    /\ DiscIdle
    /\ AllIdle
    /\ BotIdle
    /\ LaterIdle
    /\ top_sectors \in {<<a, b>> : a \in TopStockLists("S1"), b \in TopStockLists("S2")}
    /\ top_n_arg \in 0..MaxTopN
    /\ top_pc = "call"
    /\ top_result = <<>>

GetTopStocks ==
    /\ top_pc = "call"
    /\ top_result' = get_top_stocks(top_sectors, top_n_arg)
    /\ top_pc' = "done"
    /\ UNCHANGED <<top_sectors, top_n_arg, core_vars, index_vars, outlook_vars,
                   disc_vars, all_vars, bot_vars, later_vars>>

TopNext == GetTopStocks

SpecTop == TopInit /\ [][TopNext]_vars

RECURSIVE DedupeAll(_, _, _)
\* the first entry of each symbol of a list, in the order of the list
DedupeAll(sorted, seen, unique_stocks) ==
    IF sorted = <<>> THEN unique_stocks
    ELSE LET stock == Head(sorted) IN
         IF stock.symbol \in seen
         THEN DedupeAll(Tail(sorted), seen, unique_stocks)
         ELSE DedupeAll(Tail(sorted), seen \cup {stock.symbol},
                        Append(unique_stocks, stock))

\* the stable descending order of every top_stocks entry
TopScanOrder == SortedByStrength(AllStocks(top_sectors))

\* the first entry of each symbol in that order, in that order
FirstOccurrences == DedupeAll(TopScanOrder, {}, <<>>)

\* C19 (as claimed): for every top_n >= 0 get_top_stocks returns at most
\* top_n entries, sorted by strength_score descending and unique by symbol,
\* and the entry kept for a symbol is the first one met in the stable
\* descending order of all top_stocks.
C19_TopStocksAtMostTopN ==
    top_pc = "done" =>
        /\ Len(top_result) <= top_n_arg
        /\ \A i \in 1..(Len(top_result) - 1) :
               top_result[i].strength_score >= top_result[i + 1].strength_score
        /\ \A i, j \in DOMAIN top_result :
               i # j => top_result[i].symbol # top_result[j].symbol
        /\ top_result = SubSeq(FirstOccurrences, 1, Len(top_result))

---------------------------------------------------------------------------
(* StockBot.run_analysis and send_daily_report, main.py 116-207.  Whether  *)
(* analyze_taiwan_market, analyze_us_market or discover raise is drawn by  *)
(* Init; a market's result is "ok" once its analysis has returned, "none"  *)
(* when the market was not asked for.                                      *)

BotMarkets == {"tw", "us", "all"}

DiscOutcomes == {"raise", "empty", "found"}

BotInit ==
    /\ ScanIdle
    /\ args = StrongSnap
    /\ ScoreStart
    /\ RsiIdle
    /\ IndexIdle
    /\ OutlookIdle
    /\ DiscIdle
    /\ AllIdle
    /\ TopIdle
    /\ LaterIdle
    /\ bot_market \in BotMarkets
    /\ tw_raises \in BOOLEAN
    /\ us_raises \in BOOLEAN
    /\ enable_discovery \in BOOLEAN
    /\ disc_outcome \in DiscOutcomes
    /\ bot_pc = "tw"
    /\ tw_result = "unset"
    /\ us_result = "unset"
    /\ discoveries = "unset"
    /\ sent = <<>>

\* main.py 125-129; an exception leaves the try block at once and is raised
\* again by the handler of lines 151-153
AnalyzeTw ==
    /\ bot_pc = "tw"
    /\ IF bot_market \in {"tw", "all"}
       THEN IF tw_raises
            THEN bot_pc' = "raised" /\ UNCHANGED tw_result
            ELSE bot_pc' = "us" /\ tw_result' = "ok"
       ELSE bot_pc' = "us" /\ tw_result' = "none"
    /\ UNCHANGED <<bot_market, tw_raises, us_raises, enable_discovery, disc_outcome,
                   us_result, discoveries, sent, core_vars, index_vars,
                   outlook_vars, disc_vars, all_vars, top_vars, later_vars>>

\* main.py 131-134
AnalyzeUs ==
    /\ bot_pc = "us"
    /\ IF bot_market \in {"us", "all"}
       THEN IF us_raises
            THEN bot_pc' = "raised" /\ UNCHANGED us_result
            ELSE bot_pc' = "discovery" /\ us_result' = "ok"
       ELSE bot_pc' = "discovery" /\ us_result' = "none"
    /\ UNCHANGED <<bot_market, tw_raises, us_raises, enable_discovery, disc_outcome,
                   tw_result, discoveries, sent, core_vars, index_vars,
                   outlook_vars, disc_vars, all_vars, top_vars, later_vars>>

\* main.py 136-149: a failure of the discovery is caught and logged
Discover ==
    /\ bot_pc = "discovery"
    /\ discoveries' = IF enable_discovery /\ disc_outcome = "found"
                      THEN "found" ELSE "empty"
    /\ bot_pc' = "report"
    /\ UNCHANGED <<bot_market, tw_raises, us_raises, enable_discovery, disc_outcome,
                   tw_result, us_result, sent, core_vars, index_vars,
                   outlook_vars, disc_vars, all_vars, top_vars, later_vars>>

\* the daily report made from a result of run_analysis, main.py 167-194
DailyReport ==
    [kind |-> "daily_report", tw |-> tw_result = "ok", us |-> us_result = "ok"]

\* main.py 167-201
SendReport ==
    /\ bot_pc = "report"
    /\ sent' = IF discoveries = "found"
               THEN <<DailyReport, [kind |-> "discovery_report", tw |-> FALSE, us |-> FALSE]>>
               ELSE <<DailyReport>>
    /\ bot_pc' = "done"
    /\ UNCHANGED <<bot_market, tw_raises, us_raises, enable_discovery, disc_outcome,
                   tw_result, us_result, discoveries, core_vars, index_vars,
                   outlook_vars, disc_vars, all_vars, top_vars, later_vars>>

\* main.py 203-207: the exception of run_analysis ends in a failure message
SendFailure ==
    /\ bot_pc = "raised"
    /\ sent' = <<[kind |-> "failure", tw |-> FALSE, us |-> FALSE]>>
    /\ bot_pc' = "done"
    /\ UNCHANGED <<bot_market, tw_raises, us_raises, enable_discovery, disc_outcome,
                   tw_result, us_result, discoveries, core_vars, index_vars,
                   outlook_vars, disc_vars, all_vars, top_vars, later_vars>>

BotNext ==
    \/ AnalyzeTw
    \/ AnalyzeUs
    \/ Discover
    \/ SendReport
    \/ SendFailure

SpecBot == BotInit /\ [][BotNext]_vars

\* a daily report with the US part has been sent
UsReported == \E i \in DOMAIN sent : sent[i].kind = "daily_report" /\ sent[i].us

\* a daily report with the Taiwan part has been sent
TwReported == \E i \in DOMAIN sent : sent[i].kind = "daily_report" /\ sent[i].tw

\* C20 (as claimed): when the bot is driven for both markets and the
\* analysis of one market raises, the analysis of the other market is still
\* performed and its report is still produced.
C20_MarketFailureIsolated ==
    (bot_pc = "done" /\ bot_market = "all") =>
        /\ (tw_raises /\ ~us_raises) => (us_result = "ok" /\ UsReported)
        /\ (us_raises /\ ~tw_raises) => (tw_result = "ok" /\ TwReported)

---------------------------------------------------------------------------
(* The strength score against the sum that is clamped after each step *)

\* the five steps of _calculate_strength_score with the running score put
\* back into [0, 100] after each of them
StepwiseClampedStrength ==
    LET s1 == ClampStrength(50 * Unit + StrengthChangeTerm(args.price_change_pct))
        s2 == ClampStrength(s1 + StrengthVolumeTerm(args.volume_ratio))
        s3 == ClampStrength(s2 + StrengthRsiTerm(args.rsi))
        s4 == ClampStrength(s3 + StrengthTrendTerm(trend_score))
    IN ClampStrength(s4 + StrengthPositionTerm(args.current_price, args.sma_20))

\* C22 (as claimed): _calculate_strength_score starts at 50 and clamps the
\* running score to [0, 100] after each of its five additive steps, so its
\* result is the step-by-step clamped sum for every input.
C22_ClampedAfterEachStep ==
    StrengthReturned => strength_score = StepwiseClampedStrength

---------------------------------------------------------------------------
(* TrendPredictor: analyze_price_pattern, _evaluate_prediction,            *)
(* calculate_pivot_points and _calculate_target_prices, as predict_stock   *)
(* calls them (predictor.py 252-271).  Prices are in thousandths, the      *)
(* prediction score in thousandths of a point (0.5 is 500).                *)

Signal(type, pattern) == [type |-> type, pattern |-> pattern]

\* predictor.py 170-179: SMA5 - SMA20 changes sign between the last two bars
CrossSignals(prev_diff, curr_diff) ==
    IF Lt(prev_diff, 0) /\ Gt(curr_diff, 0) THEN <<Signal("bullish", "golden_cross")>>
    ELSE IF Gt(prev_diff, 0) /\ Lt(curr_diff, 0) THEN <<Signal("bearish", "death_cross")>>
    ELSE <<>>

\* predictor.py 186-191: current_price >= recent_high * 0.98, and only
\* otherwise current_price <= recent_low * 1.02; both sides times 100
BreakoutSignals(current_price, recent_high, recent_low) ==
    IF current_price * 100 >= recent_high * 98
    THEN <<Signal("bullish", "breakout")>>
    ELSE IF current_price * 100 <= recent_low * 102
    THEN <<Signal("bearish", "breakdown")>>
    ELSE <<>>

\* predictor.py 194-203: up and down days among the last five changes
StreakSignals(up_days, down_days) ==
    IF up_days >= 4 THEN <<Signal("bullish", "up_streak")>>
    ELSE IF down_days >= 4 THEN <<Signal("bearish", "down_streak")>>
    ELSE <<>>

\* predictor.py 150-208: the signals in the order they are appended
analyze_price_pattern(a) ==
    CrossSignals(a.prev_diff, a.curr_diff)
        \o BreakoutSignals(a.current_price, a.recent_high, a.recent_low)
        \o StreakSignals(a.up_days, a.down_days)

\* predictor.py 325-336
PredMaTerm(current_price, sma_20, sma_60) ==
    IF Gt(current_price, sma_20) /\ Gt(sma_20, sma_60) THEN 2 * Unit
    ELSE IF Lt(current_price, sma_20) /\ Lt(sma_20, sma_60) THEN -2 * Unit
    ELSE IF Gt(current_price, sma_20) THEN 1 * Unit
    ELSE -1 * Unit

\* lines 339-347 with an overbought RSI counted for the rise
PredRsiTermMomentum(rsi) ==
    IF Gt(rsi, 70 * Unit) THEN 1 * Unit
    ELSE IF Lt(rsi, 30 * Unit) THEN 1 * Unit
    ELSE IF Gt(rsi, 50 * Unit) THEN Unit \div 2
    ELSE 0

\* predictor.py 339-347
PredRsiTerm(rsi) ==
    IF Gt(rsi, 70 * Unit) THEN -1 * Unit
    ELSE IF Lt(rsi, 30 * Unit) THEN 1 * Unit
    ELSE IF Gt(rsi, 50 * Unit) THEN Unit \div 2
    ELSE 0

\* predictor.py 350-355
PredMacdTerm(macd_hist) == IF Gt(macd_hist, 0) THEN 1 * Unit ELSE -1 * Unit

RECURSIVE SignalTerm(_)
\* predictor.py 358-364: +1 for a bullish signal, -1 for any other
SignalTerm(signals) ==
    IF signals = <<>> THEN 0
    ELSE (IF Head(signals).type = "bullish" THEN 1 * Unit ELSE -1 * Unit)
         + SignalTerm(Tail(signals))

\* predictor.py 367-376
PredDirection(score) ==
    IF score >= 3 * Unit THEN "STRONG_UP"
    ELSE IF score >= 1 * Unit THEN "UP"
    ELSE IF score <= -3 * Unit THEN "STRONG_DOWN"
    ELSE IF score <= -1 * Unit THEN "DOWN"
    ELSE "NEUTRAL"

Abs(x) == IF x < 0 THEN -x ELSE x

\* lines 379-384 with the volatility bound taken inclusive
PredConfidenceInclusive(score, volatility) ==
    IF Abs(score) >= 3 * Unit /\ Le(volatility, 30 * Unit) THEN "HIGH"
    ELSE IF Abs(score) >= 2 * Unit THEN "MEDIUM"
    ELSE "LOW"

\* predictor.py 379-384
PredConfidence(score, volatility) ==
    IF Abs(score) >= 3 * Unit /\ Lt(volatility, 30 * Unit) THEN "HIGH"
    ELSE IF Abs(score) >= 2 * Unit THEN "MEDIUM"
    ELSE "LOW"

\* predictor.py 310-386 without the list of factors
EvaluatePrediction(current_price, sma_20, sma_60, rsi, macd_hist, signals, volatility) ==
    LET score == PredMaTerm(current_price, sma_20, sma_60) + PredRsiTerm(rsi)
                 + PredMacdTerm(macd_hist) + SignalTerm(signals)
    IN [score |-> score, direction |-> PredDirection(score),
        confidence |-> PredConfidence(score, volatility)]

\* predictor.py 84-99: the levels the target prices use, each times 3 so
\* that the division of the pivot by 3 stays exact
calculate_pivot_points(high, low, last_close) ==
    LET pivot3 == high + low + last_close IN
    [r1 |-> 2 * pivot3 - 3 * low,
     r2 |-> pivot3 + 3 * (high - low),
     s1 |-> 2 * pivot3 - 3 * high,
     s2 |-> pivot3 - 3 * (high - low)]

\* predictor.py 398: volatility / sqrt(52) in thousandths of a percent,
\* with sqrt(52) taken as 7.2111 and the quotient cut off
WeeklyVolatility(volatility) == (volatility * 10000) \div 72111

\* predictor.py 399: current_price * (weekly_volatility / 100)
ExpectedMove(current_price, volatility) ==
    (current_price * WeeklyVolatility(volatility)) \div (100 * Unit)

\* round(x, 2) of a positive price given in sixths of a thousandth: the
\* nearest cent, a tie going to the even cent; the result is in thousandths
Round2(x6) ==
    LET cents == x6 \div 60
        rest == x6 % 60
        up == rest > 30 \/ (rest = 30 /\ cents % 2 = 1)
    IN 10 * (IF up THEN cents + 1 ELSE cents)

\* predictor.py 388-426; the comparisons are made in sixths of a thousandth
\* (6 * price, 2 * tripled pivot level)
CalculateTargetPrices(current_price, direction, volatility, pivots) ==
    LET move == ExpectedMove(current_price, volatility)
        cp6 == 6 * current_price
        band ==
            IF direction \in {"STRONG_UP", "UP"}
            THEN [high |-> PyMin(cp6 + 9 * move, 2 * pivots.r2),
                  low |-> PyMax(cp6 - 3 * move, 2 * pivots.s1)]
            ELSE IF direction \in {"STRONG_DOWN", "DOWN"}
            THEN [high |-> PyMin(cp6 + 3 * move, 2 * pivots.r1),
                  low |-> PyMax(cp6 - 9 * move, 2 * pivots.s2)]
            ELSE [high |-> cp6 + 6 * move, low |-> cp6 - 6 * move]
    IN [high |-> Round2(band.high), low |-> Round2(band.low)]

\* the last close, to the cent and between two cents
PredCloses == {10000, 10004}

\* (SMA20, SMA60) for each arrangement of lines 325-336
PredAverages == {<<9000, 8000>>, <<11000, 12000>>, <<9000, 9500>>, <<11000, 10500>>}

PredRsis == {NaN, 20 * Unit, 30 * Unit, 70 * Unit, 70 * Unit + 1}

PredMacds == {NaN, 0, 100}

PredVolatilities == {0, 30 * Unit - 1, 30 * Unit}

\* (SMA5 - SMA20) on the last two bars: golden cross, death cross, none
PredCrosses == {<<-100, 100>>, <<100, -100>>, <<100, 100>>}

\* (up days, down days) among the last five changes
PredStreaks == {<<4, 1>>, <<1, 4>>, <<3, 2>>}

\* how far the last bar and the 20-bar range reach beyond the close
PredSpreads == {0, 100}

PredReaches == {0, 1000}

\* the values predict_stock has at line 262: the last bar holds its close,
\* and the 20-bar high and low hold the last bar
PredInputs ==
    {[current_price |-> c, sma_20 |-> ma[1], sma_60 |-> ma[2], rsi |-> r,
      macd_hist |-> m, volatility |-> v,
      high |-> c + dh, low |-> c - dl,
      recent_high |-> c + dh + eh, recent_low |-> c - dl - el,
      prev_diff |-> x[1], curr_diff |-> x[2],
      up_days |-> st[1], down_days |-> st[2]] :
        c \in PredCloses, ma \in PredAverages, r \in PredRsis, m \in PredMacds,
        v \in PredVolatilities, dh \in PredSpreads, dl \in PredSpreads,
        eh \in PredReaches, el \in PredReaches, x \in PredCrosses,
        st \in PredStreaks}

PredInit ==
    /\ ScanIdle
    /\ args = StrongSnap
    /\ ScoreStart
    /\ RsiIdle
    /\ IndexIdle
    /\ OutlookIdle
    /\ DiscIdle
    /\ AllIdle
    /\ TopIdle
    /\ BotIdle
    /\ AbsentIdle
    /\ FetchIdle
    /\ pred_args \in PredInputs
    /\ pred_pc = "pattern"
    /\ pattern_analysis = <<>>
    /\ prediction = NoPrediction
    /\ price_range = [high |-> 0, low |-> 0]

not_pred_vars ==
    <<core_vars, index_vars, outlook_vars, disc_vars, all_vars, top_vars,
      bot_vars, absent_vars, fetch_vars>>

\* predictor.py 256
PredPattern ==
    /\ pred_pc = "pattern"
    /\ pattern_analysis' = analyze_price_pattern(pred_args)
    /\ pred_pc' = "evaluate"
    /\ UNCHANGED <<pred_args, prediction, price_range, not_pred_vars>>

\* predictor.py 262-265
PredEvaluate ==
    /\ pred_pc = "evaluate"
    /\ prediction' = EvaluatePrediction(
            pred_args.current_price, pred_args.sma_20, pred_args.sma_60,
            pred_args.rsi, pred_args.macd_hist, pattern_analysis,
            pred_args.volatility)
    /\ pred_pc' = "target"
    /\ UNCHANGED <<pred_args, pattern_analysis, price_range, not_pred_vars>>

\* predictor.py 252 and 268-271
PredTarget ==
    /\ pred_pc = "target"
    /\ price_range' = CalculateTargetPrices(
            pred_args.current_price, prediction.direction, pred_args.volatility,
            calculate_pivot_points(pred_args.high, pred_args.low,
                                   pred_args.current_price))
    /\ pred_pc' = "done"
    /\ UNCHANGED <<pred_args, pattern_analysis, prediction, not_pred_vars>>

PredNext == PredPattern \/ PredEvaluate \/ PredTarget

SpecPredict == PredInit /\ [][PredNext]_vars

---------------------------------------------------------------------------
(* Claims about the predictor, checked under SpecPredict *)

PatternsDone == pred_pc \in {"evaluate", "target", "done"}

Evaluated == pred_pc \in {"target", "done"}

HasPattern(pattern) ==
    \E k \in DOMAIN pattern_analysis : pattern_analysis[k].pattern = pattern

\* C23 (as claimed): whenever the current close is <= 102% of the
\* trailing-20 low a bearish breakdown signal is emitted, and whenever it is
\* >= 98% of the trailing-20 high a bullish breakout signal is emitted, also
\* when both hold at once.
C23_BreakoutAndBreakdown ==
    PatternsDone =>
        /\ pred_args.current_price * 100 <= pred_args.recent_low * 102 =>
               \E k \in DOMAIN pattern_analysis :
                   pattern_analysis[k] = Signal("bearish", "breakdown")
        /\ pred_args.current_price * 100 >= pred_args.recent_high * 98 =>
               \E k \in DOMAIN pattern_analysis :
                   pattern_analysis[k] = Signal("bullish", "breakout")

\* the signals of one type among those detected
SignalCount(type) ==
    Cardinality({k \in DOMAIN pattern_analysis : pattern_analysis[k].type = type})

\* the pattern signals are bullish or bearish, nothing else
OnlyTwoTypes ==
    \A k \in DOMAIN pattern_analysis :
        pattern_analysis[k].type \in {"bullish", "bearish"}

\* C24: the score of _evaluate_prediction is the MA term (+2 for price >
\* SMA20 > SMA60, -2 for price < SMA20 < SMA60, otherwise +1 if price > SMA20
\* else -1) plus the RSI term (-1 if RSI > 70, +1 if RSI < 30, +0.5 if
\* 50 < RSI <= 70, else 0) plus the MACD term (+1 if histogram > 0 else -1)
\* plus +1 per bullish and -1 per bearish pattern signal; the direction is
\* STRONG_UP if score >= 3, UP if 1 <= score < 3, STRONG_DOWN if score <= -3,
\* DOWN if -3 < score <= -1, NEUTRAL otherwise.
C24_ScoreAndDirection ==
    Evaluated =>
        LET a == pred_args
            known(x) == x # NaN
            ma == CASE a.current_price > a.sma_20 /\ a.sma_20 > a.sma_60 -> 2000
                    [] a.current_price < a.sma_20 /\ a.sma_20 < a.sma_60 -> -2000
                    [] OTHER -> IF a.current_price > a.sma_20 THEN 1000 ELSE -1000
            r == CASE known(a.rsi) /\ a.rsi > 70000 -> -1000
                   [] known(a.rsi) /\ a.rsi < 30000 -> 1000
                   [] known(a.rsi) /\ a.rsi > 50000 /\ a.rsi <= 70000 -> 500
                   [] OTHER -> 0
            m == IF known(a.macd_hist) /\ a.macd_hist > 0 THEN 1000 ELSE -1000
            total == ma + r + m + 1000 * SignalCount("bullish")
                     - 1000 * SignalCount("bearish")
        IN /\ OnlyTwoTypes
           /\ prediction.score = total
           /\ prediction.direction =
                  CASE total >= 3000 -> "STRONG_UP"
                    [] total >= 1000 /\ total < 3000 -> "UP"
                    [] total <= -3000 -> "STRONG_DOWN"
                    [] total > -3000 /\ total <= -1000 -> "DOWN"
                    [] OTHER -> "NEUTRAL"

\* an overbought RSI on a full bullish stack with two bullish and one
\* bearish signal: 2 - 1 + 1 + 1 = 3, STRONG_UP
C24_Witness ==
    /\ Evaluated
    /\ pred_args.rsi = 70 * Unit + 1
    /\ SignalCount("bullish") = 2
    /\ SignalCount("bearish") = 1
    /\ prediction.score = 3 * Unit
    /\ prediction.direction = "STRONG_UP"

\* C25: confidence is HIGH exactly when |score| >= 3 and volatility < 30,
\* MEDIUM exactly when |score| >= 2 and not HIGH, LOW otherwise; HIGH occurs
\* only with STRONG_UP or STRONG_DOWN, and NEUTRAL only with LOW.
C25_Confidence ==
    Evaluated =>
        LET magnitude == IF prediction.score < 0 THEN 0 - prediction.score
                         ELSE prediction.score
            high == magnitude >= 3000 /\ pred_args.volatility # NaN
                    /\ pred_args.volatility < 30000
            medium == magnitude >= 2000 /\ ~high
        IN /\ prediction.confidence = "HIGH" <=> high
           /\ prediction.confidence = "MEDIUM" <=> medium
           /\ prediction.confidence = "LOW" <=> (~high /\ ~medium)
           /\ prediction.confidence = "HIGH" =>
                  prediction.direction \in {"STRONG_UP", "STRONG_DOWN"}
           /\ prediction.direction = "NEUTRAL" => prediction.confidence = "LOW"

\* a strong score at a volatility of exactly 30 is MEDIUM
C25_Witness ==
    /\ Evaluated
    /\ prediction.score <= -3 * Unit
    /\ pred_args.volatility = 30 * Unit
    /\ prediction.confidence = "MEDIUM"
    /\ prediction.direction = "STRONG_DOWN"

\* C28 (as claimed): for a last bar with low <= close <= high, a volatility
\* >= 0 and any direction, the band of _calculate_target_prices built on
\* the pivots of that bar has target_low <= current_price <= target_high.
C28_BandHoldsPrice ==
    pred_pc = "done" =>
        /\ price_range.low <= pred_args.current_price
        /\ pred_args.current_price <= price_range.high

---------------------------------------------------------------------------
(* analyze_stock, analyze_index and predict_stock on the frame that        *)
(* get_stock_data returned for them: None, or a frame of some length.      *)

\* predictor.py 236
PredictMinBars == 60

NoPricePrediction == [kind |-> "none"]

\* predictor.py 234-308: None without 60 bars; nothing in the try block
\* raises on a frame of 60 bars or more
predict_stock(data) ==
    IF ~data.present \/ data.bars < PredictMinBars THEN NoPricePrediction
    ELSE LET a == data.pred
             e == EvaluatePrediction(a.current_price, a.sma_20, a.sma_60, a.rsi,
                                     a.macd_hist, analyze_price_pattern(a),
                                     a.volatility)
             t == CalculateTargetPrices(
                      a.current_price, e.direction, a.volatility,
                      calculate_pivot_points(a.high, a.low, a.current_price))
         IN [kind |-> "ok", direction |-> e.direction, confidence |-> e.confidence,
             target_price_high |-> t.high, target_price_low |-> t.low]

\* market_analyzer.py 238-242: the frame may be None
AnalyzeIndexFrame(data) ==
    IF ~data.present THEN NoIndex ELSE analyze_index(data.series)

\* numbers of bars on and next to the two thresholds
AbsentLengths == {1, MinBars - 1, MinBars, IndexMinBars - 1, IndexMinBars, SeriesBars}

AbsentSeries == {Ramp(0, 1, 1), Ramp(45, 1, 0), Ramp(45, 0, 2)}

\* two of the inputs of the prediction
AbsentPredInputs ==
    {[current_price |-> 10000, sma_20 |-> 9000, sma_60 |-> 8000, rsi |-> r,
      macd_hist |-> 100, volatility |-> 20 * Unit, high |-> 10100, low |-> 9900,
      recent_high |-> 11000, recent_low |-> 9000, prev_diff |-> 100,
      curr_diff |-> 100, up_days |-> 3, down_days |-> 2] : r \in {NaN, 60 * Unit}}

\* what get_stock_data hands over: None, or a frame with its closes, the
\* indicators analyze_stock reads and the values predict_stock works on
AbsentFrames ==
    {[bars |-> 0, present |-> FALSE, snap |-> <<>>, series |-> <<>>, pred |-> <<>>]}
    \cup {[bars |-> n, present |-> TRUE, snap |-> sn, series |-> SubSeq(r, 1, n),
           pred |-> a] :
            n \in AbsentLengths, sn \in {StrongSnap, WeakSnap, NaNSnap},
            r \in AbsentSeries, a \in AbsentPredInputs}

AbsentInit ==
    /\ ScanIdle
    /\ args = StrongSnap
    /\ ScoreStart
    /\ RsiIdle
    /\ IndexIdle
    /\ OutlookIdle
    /\ DiscIdle
    /\ AllIdle
    /\ TopIdle
    /\ BotIdle
    /\ PredIdle
    /\ FetchIdle
    /\ absent_data \in AbsentFrames
    /\ absent_called = {}
    /\ absent_stock = "unset"
    /\ absent_index = "unset"
    /\ absent_prediction = "unset"

not_absent_vars ==
    <<core_vars, index_vars, outlook_vars, disc_vars, all_vars, top_vars,
      bot_vars, pred_vars, fetch_vars>>

\* sector_scanner.py 72-144
CallAnalyzeStock ==
    /\ absent_data # <<>>
    /\ "analyze_stock" \notin absent_called
    /\ absent_stock' = analyze_stock("AAA", absent_data)
    /\ absent_called' = absent_called \cup {"analyze_stock"}
    /\ UNCHANGED <<absent_data, absent_index, absent_prediction, not_absent_vars>>

\* market_analyzer.py 238-301
CallAnalyzeIndex ==
    /\ absent_data # <<>>
    /\ "analyze_index" \notin absent_called
    /\ absent_index' = AnalyzeIndexFrame(absent_data)
    /\ absent_called' = absent_called \cup {"analyze_index"}
    /\ UNCHANGED <<absent_data, absent_stock, absent_prediction, not_absent_vars>>

\* predictor.py 234-308
CallPredictStock ==
    /\ absent_data # <<>>
    /\ "predict_stock" \notin absent_called
    /\ absent_prediction' = predict_stock(absent_data)
    /\ absent_called' = absent_called \cup {"predict_stock"}
    /\ UNCHANGED <<absent_data, absent_stock, absent_index, not_absent_vars>>

AbsentNext == CallAnalyzeStock \/ CallAnalyzeIndex \/ CallPredictStock

SpecAbsent == AbsentInit /\ [][AbsentNext]_vars

\* the frame has at least n bars
HasBars(n) == absent_data.present /\ absent_data.bars >= n

\* C27: with no data or fewer bars than required each component returns
\* absent without raising (analyze_stock below 20 bars, analyze_index and
\* predict_stock below 60); with that many bars and a computation that
\* succeeds each returns a result object.
C27_AbsentOnShortData ==
    /\ "analyze_stock" \in absent_called =>
           /\ absent_stock.kind \in {"none", "ok"}
           /\ ~HasBars(20) => absent_stock.kind = "none"
           /\ (HasBars(20) /\ absent_data.snap.macd_histogram # NaN) =>
                  absent_stock.kind = "ok"
    /\ "analyze_index" \in absent_called =>
           /\ absent_index.kind \in {"none", "ok"}
           /\ ~HasBars(60) => absent_index.kind = "none"
           /\ HasBars(60) => absent_index.kind = "ok"
    /\ "predict_stock" \in absent_called =>
           /\ absent_prediction.kind \in {"none", "ok"}
           /\ ~HasBars(60) => absent_prediction.kind = "none"
           /\ HasBars(60) => absent_prediction.kind = "ok"

\* 59 bars: a stock analysis, but no index analysis and no prediction
C27_Witness ==
    /\ absent_called = {"analyze_stock", "analyze_index", "predict_stock"}
    /\ absent_data.present
    /\ absent_data.bars = 59
    /\ absent_stock.kind = "ok"
    /\ absent_index.kind = "none"
    /\ absent_prediction.kind = "none"

---------------------------------------------------------------------------
(* DataFetcher with its clock: get_stock_data and clear_cache on one       *)
(* fetcher, data_fetcher.py 19-66 and 155-159.  Time is counted in         *)
(* minutes.  A cache key is the (symbol, period, interval) triple that     *)
(* line 41 formats; a frame is known by the minute it was fetched in.      *)

\* data_fetcher.py 22: cache_duration, in minutes
CacheMinutes == 15

\* last minute of the clock
MaxClock == 17

CacheKeys == {<<"AAA", "3mo", "1d">>, <<"AAA", "6mo", "1d">>}

\* what the provider does when asked: a frame, an empty frame, an exception
ProviderOutcomes == {"ok", "empty", "raises"}

\* line 45 with an entry still served in the minute it expires
IsFreshInclusive(now, expiry, key) ==
    key \in DOMAIN expiry /\ now <= expiry[key]

\* data_fetcher.py 45: datetime.now() < self.cache_expiry.get(key, datetime.min)
IsFresh(now, expiry, key) ==
    key \in DOMAIN expiry /\ now < expiry[key]

\* data_fetcher.py 41-66 at minute now; outcome is what the provider does if
\* it is asked and took says how many minutes the request takes.  Gives the
\* value returned, the two dictionaries and the clock afterwards.
GetStockDataAt(cached, expiry, key, now, outcome, took) ==
    IF key \in DOMAIN cached /\ IsFresh(now, expiry, key)
    THEN [contacted |-> FALSE, outcome |-> "cached", returned |-> cached[key],
          cache |-> cached, cache_expiry |-> expiry, now |-> now]
    ELSE IF outcome = "ok"
    THEN LET df == [fetched_at |-> now + took] IN
         [contacted |-> TRUE, outcome |-> outcome, returned |-> df,
          cache |-> (key :> df) @@ cached,
          cache_expiry |-> (key :> now + took + CacheMinutes) @@ expiry,
          now |-> now + took]
    ELSE [contacted |-> TRUE, outcome |-> outcome, returned |-> "None",
          cache |-> cached, cache_expiry |-> expiry, now |-> now + took]

\* data_fetcher.py 19-22: a new fetcher, nothing called yet
FetchInit ==
    /\ ScanIdle
    /\ args = StrongSnap
    /\ ScoreStart
    /\ RsiIdle
    /\ IndexIdle
    /\ OutlookIdle
    /\ DiscIdle
    /\ AllIdle
    /\ TopIdle
    /\ BotIdle
    /\ PredIdle
    /\ AbsentIdle
    /\ fc_now = 0
    /\ fc_cache = <<>>
    /\ fc_expiry = <<>>
    /\ fc_fetched = <<>>
    /\ fc_last = [op |-> "init"]

not_fetch_vars ==
    <<core_vars, index_vars, outlook_vars, disc_vars, all_vars, top_vars,
      bot_vars, pred_vars, absent_vars>>

\* a minute passes
Tick ==
    /\ fc_last # <<>>
    /\ fc_now < MaxClock
    /\ fc_now' = fc_now + 1
    /\ UNCHANGED <<fc_cache, fc_expiry, fc_fetched, fc_last, not_fetch_vars>>

\* data_fetcher.py 41-66; fc_fetched remembers the minute of the last
\* successful fetch of each key since the cache was last cleared
GetStockData(key) ==
    /\ fc_last # <<>>
    /\ \E outcome \in ProviderOutcomes, took \in {0, 1} :
         LET got == GetStockDataAt(fc_cache, fc_expiry, key, fc_now, outcome, took) IN
         /\ got.now <= MaxClock
         /\ fc_now' = got.now
         /\ fc_cache' = got.cache
         /\ fc_expiry' = got.cache_expiry
         /\ fc_fetched' = IF got.outcome = "ok"
                          THEN (key :> got.now) @@ fc_fetched ELSE fc_fetched
         /\ fc_last' = [op |-> "get", key |-> key, at |-> fc_now,
                        contacted |-> got.contacted, outcome |-> got.outcome,
                        returned |-> got.returned]
    /\ UNCHANGED not_fetch_vars

\* data_fetcher.py 155-159
ClearCache ==
    /\ fc_last # <<>>
    /\ fc_cache' = <<>>
    /\ fc_expiry' = <<>>
    /\ fc_fetched' = <<>>
    /\ fc_last' = [op |-> "clear"]
    /\ UNCHANGED <<fc_now, not_fetch_vars>>

FetchNext ==
    \/ Tick
    \/ \E key \in CacheKeys : GetStockData(key)
    \/ ClearCache

SpecFetch == FetchInit /\ [][FetchNext]_vars

\* the last call was a get_stock_data answered from the cache
ServedFromCache ==
    /\ fc_last # <<>>
    /\ fc_last.op = "get"
    /\ ~fc_last.contacted

\* C30: get_stock_data returns a cached frame without contacting the
\* provider only if the same key was fetched successfully less than 15
\* minutes earlier and the cache was not cleared since; a fetch that returns
\* empty data or raises yields None and neither creates nor overwrites a
\* cache entry or its expiry.
C30_CacheOnlyFresh ==
    /\ [](ServedFromCache =>
            /\ fc_last.key \in DOMAIN fc_fetched
            /\ fc_fetched[fc_last.key] <= fc_last.at
            /\ fc_last.at - fc_fetched[fc_last.key] < 15
            /\ fc_last.returned = [fetched_at |-> fc_fetched[fc_last.key]])
    /\ [][(fc_last' # fc_last /\ fc_last'.op = "get"
              /\ fc_last'.outcome \in {"empty", "raises"}) =>
                 /\ fc_last'.returned = "None"
                 /\ fc_cache' = fc_cache
                 /\ fc_expiry' = fc_expiry]_vars

\* a frame served 14 minutes after it was fetched, the cache holding no
\* other entry
C30_Witness ==
    /\ ServedFromCache
    /\ fc_last.at - fc_fetched[fc_last.key] = 14
    /\ DOMAIN fc_cache = {fc_last.key}

\* C18 (as claimed): while the workers of scan_sector run, no worker writes
\* to state that another worker reads or writes; in particular a worker's
\* get_stock_data call does not change the DataFetcher the workers share.
C18_WorkersShareNothing ==
    [][(\E i \in DOMAIN futures :
            /\ futures[i].state = "running"
            /\ i \in DOMAIN futures'
            /\ futures'[i].state = "finished") => cache' = cache]_vars

===========================================================================
